---------------------------- MODULE Spec2Model ----------------------------
(***************************************************************************)
(* Model of the transform / quantization / RDOQ core of x265               *)
(* (source/common/quant.cpp).  One Quant object is modelled: its scratch   *)
(* coefficient buffer, its QP parameters and flags, the level array and    *)
(* return value of the last transformNxN call and the residual written by  *)
(* the last invtransformNxN call.  Arrays are functions over raster        *)
(* positions 0..numCoeff-1.                                                *)
(***************************************************************************)
EXTENDS Integers, Sequences, FiniteSets, TLC

(***************************************************************************)
(* Program constants                                                       *)
(***************************************************************************)
MAX_TR_DYNAMIC_RANGE == 15
QUANT_SHIFT == 14
QUANT_IQUANT_SHIFT == 20
SCALE_BITS == 15
IEP_RATE == 32768
SBH_THRESHOLD == 4
LOG2_SCAN_SET_SIZE == 4
SCAN_SET_SIZE == 16
MLS_CG_SIZE == 4
COEF_REMAIN_BIN_REDUCTION == 3
C1FLAG_NUMBER == 8
MAX_INT == 2147483647
COEF_MAX == 32767
COEF_MIN == -32768

TEXT_LUMA == 0
TEXT_CHROMA_U == 1
TEXT_CHROMA_V == 2

SCAN_DIAG == 0
SCAN_HOR == 1
SCAN_VER == 2

(***************************************************************************)
(* Integer helpers: C operators on two's-complement integers               *)
(***************************************************************************)
RECURSIVE Pow2(_)
Pow2(n) == IF n <= 0 THEN 1 ELSE 2 * Pow2(n - 1)

Abs(x) == IF x < 0 THEN -x ELSE x

Shl(x, n) == x * Pow2(n)

\* arithmetic right shift of a signed value
Shr(x, n) == x \div Pow2(n)

Clip3(lo, hi, x) == IF x < lo THEN lo ELSE IF x > hi THEN hi ELSE x

Min2(a, b) == IF a < b THEN a ELSE b

Max2(a, b) == IF a > b THEN a ELSE b

\* value of an int truncated to int16_t
ToInt16(x) == LET m == x % 65536 IN IF m >= 32768 THEN m - 65536 ELSE m

\* TLC evaluates the arguments of an operator lazily; the loops of the model,
\* written as recursions, hand each iteration a state that is already evaluated
Evaluated(v) == v = v

\* an array of the program: a function whose elements are computed once, when
\* the array is built
Array(f) == IF Evaluated(f) THEN f ELSE f

NumCoeff(log2TrSize) == Pow2(2 * log2TrSize)

Positions(log2TrSize) == 0 .. (NumCoeff(log2TrSize) - 1)

CountNonZero(c) == Cardinality({i \in DOMAIN c : c[i] # 0})

(***************************************************************************)
(* TUEntropyCodingParameters: scan[] maps a scan position to a raster      *)
(* block position, scanCG[] maps a CG scan position to a CG raster         *)
(* position.  The 4x4 orders are the up-right diagonal, the horizontal     *)
(* and the vertical scans.                                                 *)
(***************************************************************************)
DiagScan4 == <<0, 4, 1, 8, 5, 2, 12, 9, 6, 3, 13, 10, 7, 14, 11, 15>>

HorScan4 == <<0, 1, 2, 3, 4, 5, 6, 7, 8, 9, 10, 11, 12, 13, 14, 15>>

VerScan4 == <<0, 4, 8, 12, 1, 5, 9, 13, 2, 6, 10, 14, 3, 7, 11, 15>>

Scan4(scanType) ==
    IF scanType = SCAN_HOR THEN HorScan4
    ELSE IF scanType = SCAN_VER THEN VerScan4 ELSE DiagScan4

\* order of the CGs of a grid of side 1, 2 or 4
ScanCG(scanType, log2TrSizeCG) ==
    IF log2TrSizeCG = 0 THEN <<0>>
    ELSE IF log2TrSizeCG = 1
         THEN (IF scanType = SCAN_HOR THEN <<0, 1, 2, 3>> ELSE <<0, 2, 1, 3>>)
         ELSE Scan4(scanType)

\* raster block position of scan position pos
ScanPosToBlk(scanType, log2TrSize, pos) ==
    LET log2CG == log2TrSize - 2
        cgBlk  == ScanCG(scanType, log2CG)[(pos \div SCAN_SET_SIZE) + 1]
        cgY    == cgBlk \div Pow2(log2CG)
        cgX    == cgBlk % Pow2(log2CG)
        in4    == Scan4(scanType)[(pos % SCAN_SET_SIZE) + 1]
        y      == cgY * 4 + (in4 \div 4)
        x      == cgX * 4 + (in4 % 4)
    IN  y * Pow2(log2TrSize) + x

CodeParams(scanType, log2TrSize) ==
    [log2TrSizeCG |-> log2TrSize - 2,
     scanType     |-> scanType,
     scan         |-> Array([pos \in Positions(log2TrSize) |-> ScanPosToBlk(scanType, log2TrSize, pos)]),
     scanCG       |-> Array([c \in 0 .. (Pow2(2 * (log2TrSize - 2)) - 1) |->
                          ScanCG(scanType, log2TrSize - 2)[c + 1]]),
     firstSignificanceMapContext |-> IF log2TrSize = 2 THEN 0 ELSE IF log2TrSize = 3 THEN 9 ELSE 21]

(***************************************************************************)
(* Scalar quantizer primitive (primitives.quant)                           *)
(***************************************************************************)
QuantAbsLevel(c, q, qbits, add) == Shr(Abs(c) * q + add, qbits)

\* QuantLevel that keeps the low 16 bits of the level instead of clamping it
QuantLevelWrapped(c, q, qbits, add) ==
    LET a == QuantAbsLevel(c, q, qbits, add)
    IN  ToInt16(IF c < 0 THEN -a ELSE a)

QuantLevel(c, q, qbits, add) ==
    LET a == QuantAbsLevel(c, q, qbits, add)
    IN  Clip3(COEF_MIN, COEF_MAX, IF c < 0 THEN -a ELSE a)

QuantDeltaU(c, q, qbits, add) ==
    Shr(Abs(c) * q - Shl(QuantAbsLevel(c, q, qbits, add), qbits), qbits - 8)

quant(coef, quantCoeff, qbits, add) ==
    [coeff  |-> Array([i \in DOMAIN coef |-> QuantLevel(coef[i], quantCoeff[i], qbits, add)]),
     deltaU |-> Array([i \in DOMAIN coef |-> QuantDeltaU(coef[i], quantCoeff[i], qbits, add)]),
     numSig |-> Cardinality({i \in DOMAIN coef : QuantAbsLevel(coef[i], quantCoeff[i], qbits, add) # 0})]


(***************************************************************************)
(* Quant::signBitHidingHDQ.  The loop over coefficient groups is a fold    *)
(* over st = [coeff, numSig, lastCG, oob]; oob records an access to        *)
(* coeff[-1] (minPos never assigned).                                      *)
(***************************************************************************)
\* last (highest) scan position in the CG holding a non-zero level, -1 if none
LastNZPosInCG(coeff, scan, cgStartPos) ==
    LET S == {n \in 0 .. (SCAN_SET_SIZE - 1) : coeff[scan[n + cgStartPos]] # 0}
    IN  IF S = {} THEN -1 ELSE CHOOSE n \in S : \A m \in S : m <= n

\* first (lowest) scan position in the CG holding a non-zero level
FirstNZPosInCG(coeff, scan, cgStartPos) ==
    LET S == {n \in 0 .. (SCAN_SET_SIZE - 1) : coeff[scan[n + cgStartPos]] # 0}
    IN  CHOOSE n \in S : \A m \in S : n <= m

\* absSum += coeff[scan[n + cgStartPos]] for n = first .. last (signed levels)
RECURSIVE CGAbsSum(_, _, _, _, _)
CGAbsSum(coeff, scan, cgStartPos, n, last) ==
    IF n > last THEN 0
    ELSE coeff[scan[n + cgStartPos]] + CGAbsSum(coeff, scan, cgStartPos, n + 1, last)

SignBit(level) == IF level > 0 THEN 0 ELSE 1

\* HidesSign for groups whose first and last level are more than SBH_THRESHOLD
\* apart
HidesSignStrict(firstNZPosInCG, lastNZPosInCG) ==
    lastNZPosInCG - firstNZPosInCG > SBH_THRESHOLD

\* lines 242 and 919: the group is one that hides a sign
HidesSign(firstNZPosInCG, lastNZPosInCG) ==
    lastNZPosInCG - firstNZPosInCG >= SBH_THRESHOLD

\* HdqCandidate without lines 266-267 and 279-281: the first level of the group
\* and the zero levels before it are candidates like any other
HdqCandidateUnvetoed(coeff, deltaU, resi, blkPos, n, firstNZPosInCG, signbit, acc) ==
    LET cur ==
          IF coeff[blkPos] # 0
          THEN IF deltaU[blkPos] > 0
               THEN [curCost |-> -deltaU[blkPos], curChange |-> 1]
               ELSE [curCost |-> deltaU[blkPos], curChange |-> -1]
          ELSE [curCost |-> -deltaU[blkPos], curChange |-> 1]
    IN  IF cur.curCost < acc.minCostInc
        THEN [minCostInc |-> cur.curCost, finalChange |-> cur.curChange,
              minPos |-> blkPos, curChange |-> cur.curChange]
        ELSE [acc EXCEPT !.curChange = cur.curChange]

\* one iteration of the candidate loop (lines 254-301)
HdqCandidate(coeff, deltaU, resi, blkPos, n, firstNZPosInCG, signbit, acc) ==
    LET cur ==
          IF coeff[blkPos] # 0
          THEN IF deltaU[blkPos] > 0
               THEN [curCost |-> -deltaU[blkPos], curChange |-> 1]
               ELSE IF n = firstNZPosInCG /\ Abs(coeff[blkPos]) = 1
                    THEN [curCost |-> MAX_INT, curChange |-> acc.curChange]
                    ELSE [curCost |-> deltaU[blkPos], curChange |-> -1]
          ELSE IF n < firstNZPosInCG
               THEN IF (IF resi[blkPos] >= 0 THEN 0 ELSE 1) # signbit
                    THEN [curCost |-> MAX_INT, curChange |-> acc.curChange]
                    ELSE [curCost |-> -deltaU[blkPos], curChange |-> 1]
               ELSE [curCost |-> -deltaU[blkPos], curChange |-> 1]
    IN  IF cur.curCost < acc.minCostInc
        THEN [minCostInc |-> cur.curCost, finalChange |-> cur.curChange,
              minPos |-> blkPos, curChange |-> cur.curChange]
        ELSE [acc EXCEPT !.curChange = cur.curChange]

RECURSIVE HdqSearch(_, _, _, _, _, _, _, _, _)
HdqSearch(coeff, deltaU, resi, scan, cgStartPos, n, firstNZPosInCG, signbit, acc) ==
    IF n < 0 THEN acc
    ELSE LET acc1 == HdqCandidate(coeff, deltaU, resi, scan[n + cgStartPos], n,
                                  firstNZPosInCG, signbit, acc)
         IN  IF Evaluated(acc1)
             THEN HdqSearch(coeff, deltaU, resi, scan, cgStartPos, n - 1, firstNZPosInCG, signbit, acc1)
             ELSE acc1

\* ApplyChange without lines 307-310: the count of non-zero levels is not kept
ApplyChangeCountKept(st, resi, minPos, change) ==
    IF minPos < 0 THEN [st EXCEPT !.oob = TRUE]
    ELSE LET old == st.coeff[minPos]
             finalChange == IF old = COEF_MAX \/ old = COEF_MIN THEN -1 ELSE change
             new == IF resi[minPos] >= 0 THEN old + finalChange ELSE old - finalChange
         IN  [st EXCEPT !.coeff = [st.coeff EXCEPT ![minPos] = new]]

\* ApplyChange without lines 303-305: the change found by the search is applied
\* to a level at the clamp as to any other
ApplyChangeUnclamped(st, resi, minPos, change) ==
    IF minPos < 0 THEN [st EXCEPT !.oob = TRUE]
    ELSE LET old == st.coeff[minPos]
             numSig == IF old = 0 THEN st.numSig + 1
                       ELSE IF change = -1 /\ Abs(old) = 1 THEN st.numSig - 1
                       ELSE st.numSig
             new == IF resi[minPos] >= 0 THEN old + change ELSE old - change
         IN  [st EXCEPT !.coeff = [st.coeff EXCEPT ![minPos] = new], !.numSig = numSig]

\* lines 303-315: clamp override, numSig bookkeeping and the +/-1 change
ApplyChange(st, resi, minPos, change) ==
    IF minPos < 0 THEN [st EXCEPT !.oob = TRUE]
    ELSE LET old == st.coeff[minPos]
             finalChange == IF old = COEF_MAX \/ old = COEF_MIN THEN -1 ELSE change
             numSig == IF old = 0 THEN st.numSig + 1
                       ELSE IF finalChange = -1 /\ Abs(old) = 1 THEN st.numSig - 1
                       ELSE st.numSig
             new == IF resi[minPos] >= 0 THEN old + finalChange ELSE old - finalChange
         IN  [st EXCEPT !.coeff = [st.coeff EXCEPT ![minPos] = new], !.numSig = numSig]

\* HdqCG without the lastCG case of line 254: the search starts at the end of
\* every group
HdqCGFullSearch(st, deltaU, resi, scan, cg) ==
    LET cgStartPos == Shl(cg, LOG2_SCAN_SET_SIZE)
        lastNZ     == LastNZPosInCG(st.coeff, scan, cgStartPos)
    IN  IF lastNZ < 0 THEN st
        ELSE
          LET firstNZ == FirstNZPosInCG(st.coeff, scan, cgStartPos)
              signbit == SignBit(st.coeff[scan[cgStartPos + firstNZ]])
              absSum  == CGAbsSum(st.coeff, scan, cgStartPos, firstNZ, lastNZ)
              acc0    == [minCostInc |-> MAX_INT, finalChange |-> 0, minPos |-> -1, curChange |-> 0]
              acc     == HdqSearch(st.coeff, deltaU, resi, scan, cgStartPos,
                                   SCAN_SET_SIZE - 1, firstNZ, signbit, acc0)
              st1     == IF HidesSign(firstNZ, lastNZ) /\ signbit # (absSum % 2)
                         THEN ApplyChange(st, resi, acc.minPos, acc.finalChange)
                         ELSE st
          IN  [st1 EXCEPT !.lastCG = FALSE]

\* body of the loop over coefficient groups (lines 224-319)
HdqCG(st, deltaU, resi, scan, cg) ==
    LET cgStartPos == Shl(cg, LOG2_SCAN_SET_SIZE)
        lastNZ     == LastNZPosInCG(st.coeff, scan, cgStartPos)
    IN  IF lastNZ < 0 THEN st
        ELSE
          LET firstNZ == FirstNZPosInCG(st.coeff, scan, cgStartPos)
              signbit == SignBit(st.coeff[scan[cgStartPos + firstNZ]])
              absSum  == CGAbsSum(st.coeff, scan, cgStartPos, firstNZ, lastNZ)
              acc0    == [minCostInc |-> MAX_INT, finalChange |-> 0, minPos |-> -1, curChange |-> 0]
              acc     == HdqSearch(st.coeff, deltaU, resi, scan, cgStartPos,
                                   IF st.lastCG THEN lastNZ ELSE SCAN_SET_SIZE - 1,
                                   firstNZ, signbit, acc0)
              st1     == IF HidesSign(firstNZ, lastNZ) /\ signbit # (absSum % 2)
                         THEN ApplyChange(st, resi, acc.minPos, acc.finalChange)
                         ELSE st
          IN  [st1 EXCEPT !.lastCG = FALSE]

RECURSIVE HdqLoop(_, _, _, _, _)
HdqLoop(st, deltaU, resi, scan, cg) ==
    IF cg < 0 THEN st
    ELSE LET st1 == HdqCG(st, deltaU, resi, scan, cg)
         IN  IF Evaluated(st1) THEN HdqLoop(st1, deltaU, resi, scan, cg - 1) ELSE st1

signBitHidingHDQ(coeff, deltaU, numSig, resi, codeParams) ==
    HdqLoop([coeff |-> coeff, numSig |-> numSig, lastCG |-> TRUE, oob |-> FALSE],
            deltaU, resi, codeParams.scan, Pow2(codeParams.log2TrSizeCG * 2) - 1)


(***************************************************************************)
(* Transform kernels (primitives.dct / primitives.idct): the HEVC integer  *)
(* DCT of sizes 4 and 8 and the 4x4 DST, each as two passes of the         *)
(* partial butterfly, written as the matrix product the butterfly          *)
(* computes.  A block is a function over raster positions.                 *)
(***************************************************************************)
g_t4 == << <<64, 64, 64, 64>>,
           <<83, 36, -36, -83>>,
           <<64, -64, -64, 64>>,
           <<36, -83, 83, -36>> >>

g_t8 == << <<64, 64, 64, 64, 64, 64, 64, 64>>,
           <<89, 75, 50, 18, -18, -50, -75, -89>>,
           <<83, 36, -36, -83, -83, -36, 36, 83>>,
           <<75, -18, -89, -50, 50, 89, 18, -75>>,
           <<64, -64, -64, 64, 64, -64, -64, 64>>,
           <<50, -89, 18, 75, -75, -18, 89, -50>>,
           <<36, -83, 83, -36, -36, 83, -83, 36>>,
           <<18, -50, 75, -89, 89, -75, 50, -18>> >>

g_dst4 == << <<29, 55, 74, 84>>,
             <<74, 74, 0, -74>>,
             <<84, -29, -74, 55>>,
             <<55, -84, 74, -29>> >>

TransformMatrix(log2TrSize, useDST) ==
    IF useDST THEN g_dst4 ELSE IF log2TrSize = 2 THEN g_t4 ELSE g_t8

RECURSIVE DotFwd(_, _, _, _, _, _)
\* sum over n < N of M[k][n] * src[j*N + n]
DotFwd(M, src, N, k, j, n) ==
    IF n >= N THEN 0
    ELSE M[k + 1][n + 1] * src[j * N + n] + DotFwd(M, src, N, k, j, n + 1)

RECURSIVE DotInv(_, _, _, _, _, _)
\* sum over n < N of M[n][k] * src[n*N + j]
DotInv(M, src, N, k, j, n) ==
    IF n >= N THEN 0
    ELSE M[n + 1][k + 1] * src[n * N + j] + DotInv(M, src, N, k, j, n + 1)

\* partialButterflyN(src, dst, shift, line): dst[k*line + j] for row j of src
PartialButterfly(M, src, N, shift) ==
    Array([i \in 0 .. (N * N - 1) |->
        ToInt16(Shr(DotFwd(M, src, N, i \div N, i % N, 0) + Pow2(shift - 1), shift))])

\* partialButterflyInverseN(src, dst, shift, line): dst[j*N + k] for column j of src
PartialButterflyInverse(M, src, N, shift) ==
    Array([i \in 0 .. (N * N - 1) |->
        Clip3(COEF_MIN, COEF_MAX,
              Shr(DotInv(M, src, N, i % N, i \div N, 0) + Pow2(shift - 1), shift))])

\* primitives.dct[index](residual, coef, stride); block is the trSize x trSize
\* window of the residual buffer
dct(block, log2TrSize, useDST, depth) ==
    LET N  == Pow2(log2TrSize)
        M  == TransformMatrix(log2TrSize, useDST)
        p1 == PartialButterfly(M, block, N, log2TrSize - 1 + depth - 8)
    IN  PartialButterfly(M, p1, N, log2TrSize + 6)

\* primitives.idct[index](coef, residual, stride); the result is the
\* trSize x trSize block written to the residual buffer
idct(coef, log2TrSize, useDST, depth) ==
    LET N  == Pow2(log2TrSize)
        M  == TransformMatrix(log2TrSize, useDST)
        c16 == Array([i \in DOMAIN coef |-> ToInt16(coef[i])])
        p1 == PartialButterflyInverse(M, c16, N, 7)
    IN  PartialButterflyInverse(M, p1, N, 12 - (depth - 8))

(***************************************************************************)
(* Scaling-list store: m_quantCoef / m_dequantCoef by (sizeIdx, listType,  *)
(* rem) and the flat s_invQuantScales table.                               *)
(***************************************************************************)
s_quantScales == <<26214, 23302, 20560, 18396, 16384, 14564>>

s_invQuantScales == <<40, 45, 51, 57, 64, 72>>

\* the scaling-list entry behind position pos of list listType: 16 for the
\* flat default list, a list-dependent value for a supplied list
ScalingListCoef(bEnabled, listType, pos) ==
    IF bEnabled THEN 16 + 8 * ((listType + pos) % 3) ELSE 16

m_quantCoef(bEnabled, log2TrSize, listType, rem) ==
    Array([pos \in Positions(log2TrSize) |->
        Shl(s_quantScales[rem + 1], 4) \div ScalingListCoef(bEnabled, listType, pos)])

m_dequantCoef(bEnabled, log2TrSize, listType, rem) ==
    Array([pos \in Positions(log2TrSize) |->
        s_invQuantScales[rem + 1] * ScalingListCoef(bEnabled, listType, pos)])


(***************************************************************************)
(* State                                                                   *)
(***************************************************************************)
VARIABLES
    env,             \* what Quant::init, the slice and setQPforQuant fixed:
                     \* m_useRDOQ, m_psyRdoqScale, scaling list, bSignHideEnabled,
                     \* slice type, m_qpParam, m_lambdas, m_estBitsSbac, bit depth
    m_nr,            \* noise reduction state: residualSum, count per category
    call,            \* arguments of the last transformNxN call
    residual,        \* residual buffer read by the last transformNxN call
    m_resiDctCoeff,  \* scratch coefficient buffer of the Quant object
    m_fencDctCoeff,  \* its second half: the transform of the source pixels (psy-rdoq)
    coeff,           \* level array written by the last transformNxN call
    numSig,          \* value returned by the last transformNxN call
    loc,             \* locals of the last call that the properties refer to
    recon,           \* residual buffer written by the last invtransformNxN call
    srcPix,          \* reference array handed to the last intra prediction call
    dst,             \* block written by the last intra prediction call
    pc               \* "init", "transformed" or "inverted"

vars == <<env, m_nr, call, residual, m_resiDctCoeff, m_fencDctCoeff, coeff, numSig, loc, recon, srcPix, dst, pc>>

\* marks the samples of a residual buffer that lie outside the block
PAD == 21845

\* buffer index of sample (k, j) is k*stride + j
BufIndex(i, trSize, stride) == (i \div trSize) * stride + (i % trSize)

BufDomain(trSize, stride) == 0 .. ((trSize - 1) * stride + trSize - 1)

InBlock(b, trSize, stride) == (b % stride) < trSize

\* the trSize x trSize block held by a buffer
BlockOf(buf, trSize, stride) ==
    Array([i \in 0 .. (trSize * trSize - 1) |-> buf[BufIndex(i, trSize, stride)]])

\* a buffer holding block blk, PAD elsewhere
BufferOf(blk, trSize, stride) ==
    Array([b \in BufDomain(trSize, stride) |->
        IF InBlock(b, trSize, stride) THEN blk[(b \div stride) * trSize + (b % stride)] ELSE PAD])

(***************************************************************************)
(* Quant::transformNxN                                                     *)
(***************************************************************************)
TransformShift(depth, log2TrSize) == MAX_TR_DYNAMIC_RANGE - depth - log2TrSize

\* primitives.cvt16to32_cnt[log2TrSize - 2](coeff, residual, stride)
cvt16to32_cnt(resi, trSize, stride) ==
    LET c == BlockOf(resi, trSize, stride)
    IN  [coeff |-> c, count |-> CountNonZero(c)]

\* primitives.cvt16to32_shl(dst, src, stride, shift, size)
cvt16to32_shl(resi, trSize, stride, shift) ==
    Array([i \in 0 .. (trSize * trSize - 1) |-> Shl(resi[BufIndex(i, trSize, stride)], shift)])

\* primitives.cvt16to32_shr[log2TrSize - 2](dst, src, stride, shift, offset)
cvt16to32_shr(resi, trSize, stride, shift, offset) ==
    Array([i \in 0 .. (trSize * trSize - 1) |-> Shr(resi[BufIndex(i, trSize, stride)] + offset, shift)])

\* TransformBypass that returns 0 whatever it copied
TransformBypassZero(resi, log2TrSize, stride) ==
    [coeff |-> cvt16to32_cnt(resi, Pow2(log2TrSize), stride).coeff, numSig |-> 0]

\* lines 328-332
TransformBypass(resi, log2TrSize, stride) ==
    LET r == cvt16to32_cnt(resi, Pow2(log2TrSize), stride)
    IN  [coeff |-> r.coeff, numSig |-> r.count]

\* lines 341-355
TransformSkip(resi, log2TrSize, stride, depth) ==
    LET transformShift == TransformShift(depth, log2TrSize)
        trSize == Pow2(log2TrSize)
    IN  IF depth <= 10 \/ transformShift >= 0
        THEN cvt16to32_shl(resi, trSize, stride, transformShift)
        ELSE cvt16to32_shr(resi, trSize, stride, -transformShift, Pow2(-transformShift - 1))

\* level ^ sign of lines 58 and 61, sign being level >> 31: 0 or -1
XorSign(level, sign) == IF sign = 0 THEN level ELSE -level - 1

\* lines 56-58: the magnitude added to resSum
DenoiseAbs(c) ==
    LET sign == IF c < 0 THEN -1 ELSE 0
    IN  XorSign(c + sign, sign)

\* lines 56-61 without the test of line 61
DenoiseLevelUnclamped(c, offset) ==
    LET sign == IF c < 0 THEN -1 ELSE 0
    IN  XorSign(DenoiseAbs(c) - offset, sign) - sign

\* denoiseDct (lines 52-63): the new coefficients and the new residual sums
DenoiseLevel(c, offset) ==
    LET sign  == IF c < 0 THEN -1 ELSE 0
        level == DenoiseAbs(c) - offset
    IN  IF level < 0 THEN 0 ELSE XorSign(level, sign) - sign

denoiseDct(dctCoef, resSum, offset) ==
    [dctCoef |-> Array([i \in DOMAIN dctCoef |-> DenoiseLevel(dctCoef[i], offset[i])]),
     resSum  |-> Array([i \in DOMAIN resSum |-> IF i \in DOMAIN dctCoef
                                           THEN resSum[i] + DenoiseAbs(dctCoef[i]) ELSE resSum[i]])]

\* lines 356-381 with the denoising applied to intra blocks as well
TransformDctAnyMode(resi, nr, e, c) ==
    LET sizeIdx == c.log2TrSize - 2
        isLuma  == c.ttype = TEXT_LUMA
        useDST  == sizeIdx = 0 /\ isLuma /\ c.isIntra
        d       == dct(BlockOf(resi, Pow2(c.log2TrSize), c.stride), c.log2TrSize, useDST, e.depth)
        cat     == sizeIdx + 4 * (IF isLuma THEN 0 ELSE 1)
    IN  IF e.bNoiseReduction
        THEN LET dn == denoiseDct(d, nr.residualSum[cat], e.offsetDenoise[cat])
             IN  [coef |-> dn.dctCoef,
                  nr   |-> [residualSum |-> [nr.residualSum EXCEPT ![cat] = dn.resSum],
                            count       |-> [nr.count EXCEPT ![cat] = @ + 1]]]
        ELSE [coef |-> d, nr |-> nr]

\* lines 356-381: forward transform and noise reduction; the result is the new
\* m_resiDctCoeff and the new noise reduction state
TransformDct(resi, nr, e, c) ==
    LET sizeIdx == c.log2TrSize - 2
        isLuma  == c.ttype = TEXT_LUMA
        useDST  == sizeIdx = 0 /\ isLuma /\ c.isIntra
        d       == dct(BlockOf(resi, Pow2(c.log2TrSize), c.stride), c.log2TrSize, useDST, e.depth)
        cat     == sizeIdx + 4 * (IF isLuma THEN 0 ELSE 1)
    IN  IF e.bNoiseReduction /\ ~c.isIntra
        THEN LET dn == denoiseDct(d, nr.residualSum[cat], e.offsetDenoise[cat])
             IN  [coef |-> dn.dctCoef,
                  nr   |-> [residualSum |-> [nr.residualSum EXCEPT ![cat] = dn.resSum],
                            count       |-> [nr.count EXCEPT ![cat] = @ + 1]]]
        ELSE [coef |-> d, nr |-> nr]

\* lines 389-395: the parameters of the scalar quantizer
ScalarListType(ttype) == ttype + (IF ttype = TEXT_LUMA THEN 3 ELSE 0)

Per(e, c) == e.m_qpParam[c.ttype].per

Rem(e, c) == e.m_qpParam[c.ttype].rem

Qbits(e, c) == QUANT_SHIFT + Per(e, c) + TransformShift(e.depth, c.log2TrSize)

ScalarAdd(e, c) == Shl(IF e.sliceI THEN 171 ELSE 85, Qbits(e, c) - 9)

\* lines 387-408: scalar quantization and sign-bit hiding
ScalarQuant(resiDct, e, c) ==
    LET quantCoeff == m_quantCoef(e.scalingEnabled, c.log2TrSize, ScalarListType(c.ttype), Rem(e, c))
        q  == quant(resiDct, quantCoeff, Qbits(e, c), ScalarAdd(e, c))
    IN  IF q.numSig >= 2 /\ e.bSignHideEnabled
        THEN LET h == signBitHidingHDQ(q.coeff, q.deltaU, q.numSig, resiDct,
                                       CodeParams(c.scanType, c.log2TrSize))
             IN  [coeff |-> h.coeff, numSig |-> h.numSig,
                  loc |-> [path |-> "scalar", sbh |-> TRUE, pre |-> q.coeff, oob |-> h.oob]]
        ELSE [coeff |-> q.coeff, numSig |-> q.numSig,
              loc |-> [path |-> "scalar", sbh |-> FALSE, pre |-> q.coeff, oob |-> FALSE]]


(***************************************************************************)
(* Inputs of the model                                                     *)
(***************************************************************************)
\* number of residual patterns tried per block size and base value
NumSeeds == 3

\* number of environments (configurations of the Quant object and the slice)
NumEnvs == 8

ResVals == <<0, 0, 1, 0, -1, 2, 0, -3, 0, 5, 0, -2, 3, 0, -7, 1, 0>>

\* residual sample i of pattern seed; pattern 0 is flat
Pattern(seed, i, trSize) ==
    IF seed = 0 THEN 0
    ELSE ResVals[1 + ((seed * 7 + i * (2 * seed + 3) + (i \div trSize) * 5) % Len(ResVals))]

\* residual blocks: a flat base value plus a pattern of small samples
ResidualBlock(base, seed, log2TrSize) ==
    Array([i \in Positions(log2TrSize) |-> base + Pattern(seed, i, Pow2(log2TrSize))])

\* base values: none, small, and the largest residuals of the bit depth
Bases(depth) == {0, 3, Pow2(depth) - 8, 8 - Pow2(depth)}


(***************************************************************************)
(* RD costs.  rdoQuant keeps its costs in doubles; every cost of the model *)
(* is a multiple of 1/16 (lambda2 is lam/16, everything else is an         *)
(* integer), so a cost is kept exactly, in units of 1/16, as the pair      *)
(* <<hi, lo>> standing for hi * 2^19 + lo with 0 <= lo < 2^19.             *)
(***************************************************************************)
CBase == 524288

CNorm(hi, lo) == <<hi + (lo \div CBase), lo % CBase>>

CZero == <<0, 0>>

\* MAX_DOUBLE
CMax == <<MAX_INT, 0>>

CAdd(a, b) == CNorm(a[1] + b[1], a[2] + b[2])

CSub(a, b) == CNorm(a[1] - b[1], a[2] - b[2])

CLess(a, b) == a[1] < b[1] \/ (a[1] = b[1] /\ a[2] < b[2])

\* the double of an integer x
CInt(x) == CNorm(x \div 32768, (x % 32768) * 16)

\* the double of (uint64_t)v << scaleBits, v >= 0
CDist(v, scaleBits) ==
    IF scaleBits >= 15 THEN <<Shl(v, scaleBits - 15), 0>>
    ELSE <<v \div Pow2(15 - scaleBits), Shl(v % Pow2(15 - scaleBits), scaleBits + 4)>>

\* lambda2 * bits with lambda2 = lam / 16
CBits(lam, bits) ==
    LET bh == bits \div 32768
        bl == bits % 32768
    IN  CNorm((lam * bh) \div 16, ((lam * bh) % 16) * 32768 + lam * bl)

\* (int)(((m_psyRdoqScale * x) << scaleBits) >> 8)
PsyValue(psyScale, x, scaleBits) ==
    IF scaleBits >= 8 THEN Shl(psyScale * x, scaleBits - 8) ELSE Shr(psyScale * x, 8 - scaleBits)

(***************************************************************************)
(* Context-cost oracle m_estBitsSbac: tables of FIX15 bit costs, one set   *)
(* per profile.  Profile 0 prices every bin at one bit; profile 1 makes    *)
(* zero bins cheap and one bins dear; profile 2 the reverse.               *)
(***************************************************************************)
BinBits(profile, ctx, bin) ==
    IF profile = 0 THEN 32768
    ELSE IF (profile = 1) = (bin = 0) THEN 8192 + 1024 * (ctx % 4)
    ELSE 81920 - 2048 * (ctx % 4)

significantBits(profile, ctx, bin) == BinBits(profile, ctx, bin)

significantCoeffGroupBits(profile, ctx, bin) == BinBits(profile, ctx + 1, bin)

greaterOneBits(profile, ctx, bin) == BinBits(profile, ctx + 2, bin)

levelAbsBits(profile, ctx, bin) == BinBits(profile, ctx + 3, bin)

blockCbpBits(profile, ctx, bin) == BinBits(profile, ctx, bin)

blockRootCbpBits(profile, ctx, bin) == BinBits(profile, ctx + 1, bin)

lastXBits(profile, grp) == 16384 * (grp + 1) + 4096 * profile

lastYBits(profile, grp) == 16384 * (grp + 1) + 2048 * profile

(***************************************************************************)
(* Context helpers of quant.cpp.  sigCoeffGroupFlag64 is kept as the set   *)
(* of its set bits.                                                        *)
(***************************************************************************)
Bit(flag64, k) == IF k \in flag64 THEN 1 ELSE 0

\* x >> n on the uint64_t x; a shift by 64 is undefined and gives what the
\* build makes of it, oversized
Shr64(flag64, n, oversized) ==
    IF n >= 64 THEN oversized ELSE {k - n : k \in {j \in flag64 : j >= n}}

\* the cast (uint32_t)
ToUint32(bits) == {k \in bits : k < 32}

\* ((int32_t)d) >> 31: all 32 bits set when d is negative, none otherwise
SignMask(d) == IF d < 0 THEN 0 .. 31 ELSE {}

\* the value of a word of which only bits 0 and 1 can be set
LowValue(bits) == (IF 0 \in bits THEN 1 ELSE 0) + (IF 1 \in bits THEN 2 ELSE 0)

\* calcPatternSigCtx without the masks of lines 1023-1024
calcPatternSigCtxUnmasked(sigCoeffGroupFlag64, cgPosX, cgPosY, log2TrSizeCG, oversized) ==
    IF log2TrSizeCG = 0 THEN 0
    ELSE LET trSizeCG == Pow2(log2TrSizeCG)
             sigPos   == ToUint32(Shr64(sigCoeffGroupFlag64,
                                        1 + Shl(cgPosY, log2TrSizeCG) + cgPosX, oversized))
             sigRight == sigPos \cap {0}
             sigLower == ToUint32(Shr64(sigPos, trSizeCG - 2, {})) \cap {1}
         IN  LowValue(sigRight) + LowValue(sigLower)

\* Quant::calcPatternSigCtx (lines 1015-1027)
calcPatternSigCtx(sigCoeffGroupFlag64, cgPosX, cgPosY, log2TrSizeCG, oversized) ==
    IF log2TrSizeCG = 0 THEN 0
    ELSE LET trSizeCG == Pow2(log2TrSizeCG)
             sigPos   == ToUint32(Shr64(sigCoeffGroupFlag64,
                                        1 + Shl(cgPosY, log2TrSizeCG) + cgPosX, oversized))
             sigRight == SignMask(cgPosX - (trSizeCG - 1)) \cap (sigPos \cap {0})
             sigLower == (SignMask(cgPosY - (trSizeCG - 1))
                          \cap ToUint32(Shr64(sigPos, trSizeCG - 2, {}))) \cap {1}
         IN  LowValue(sigRight) + LowValue(sigLower)

\* getSigCoeffGroupCtxInc with the shift of line 1118 by trSizeCG - 2, as in
\* calcPatternSigCtx
getSigCoeffGroupCtxIncShort(cgGroupMask, cgPosX, cgPosY, log2TrSizeCG, oversized) ==
    LET trSizeCG == Pow2(log2TrSizeCG)
        sigPos   == ToUint32(Shr64(cgGroupMask, 1 + Shl(cgPosY, log2TrSizeCG) + cgPosX, oversized))
        sigRight == SignMask(cgPosX - (trSizeCG - 1)) \cap sigPos
        sigLower == SignMask(cgPosY - (trSizeCG - 1))
                    \cap ToUint32(Shr64(sigPos, IF trSizeCG >= 2 THEN trSizeCG - 2 ELSE 0, {}))
    IN  LowValue((sigRight \cup sigLower) \cap {0})

\* Quant::getSigCoeffGroupCtxInc (lines 1112-1121)
getSigCoeffGroupCtxInc(cgGroupMask, cgPosX, cgPosY, log2TrSizeCG, oversized) ==
    LET trSizeCG == Pow2(log2TrSizeCG)
        sigPos   == ToUint32(Shr64(cgGroupMask, 1 + Shl(cgPosY, log2TrSizeCG) + cgPosX, oversized))
        sigRight == SignMask(cgPosX - (trSizeCG - 1)) \cap sigPos
        sigLower == SignMask(cgPosY - (trSizeCG - 1)) \cap ToUint32(Shr64(sigPos, trSizeCG - 1, {}))
    IN  LowValue((sigRight \cup sigLower) \cap {0})

ctxIndMap == <<0, 1, 4, 5, 2, 3, 4, 5, 6, 6, 8, 8, 7, 7, 8, 8>>

table_cnt == << << <<2, 1, 1, 0>>, <<1, 1, 0, 0>>, <<1, 0, 0, 0>>, <<0, 0, 0, 0>> >>,
                << <<2, 1, 0, 0>>, <<2, 1, 0, 0>>, <<2, 1, 0, 0>>, <<2, 1, 0, 0>> >>,
                << <<2, 2, 2, 2>>, <<1, 1, 1, 1>>, <<0, 0, 0, 0>>, <<0, 0, 0, 0>> >>,
                << <<2, 2, 2, 2>>, <<2, 2, 2, 2>>, <<2, 2, 2, 2>>, <<2, 2, 2, 2>> >> >>

\* Quant::getSigCtxInc (lines 1030-1094)
getSigCtxInc(patternSigCtx, log2TrSize, trSize, blkPos, bIsLuma, firstSignificanceMapContext) ==
    IF blkPos = 0 THEN 0
    ELSE IF log2TrSize = 2 THEN ctxIndMap[blkPos + 1]
    ELSE LET posY == Shr(blkPos, log2TrSize)
             posX == blkPos % trSize
             cnt  == table_cnt[patternSigCtx + 1][(blkPos % 4) + 1][(posY % 4) + 1]
             offset == firstSignificanceMapContext + cnt
         IN  IF bIsLuma /\ (posX >= 4 \/ posY >= 4) THEN 3 + offset ELSE offset

g_groupIdx == <<0, 1, 2, 3, 4, 4, 5, 5, 6, 6, 6, 6, 7, 7, 7, 7,
                8, 8, 8, 8, 8, 8, 8, 8, 9, 9, 9, 9, 9, 9, 9, 9>>

getGroupIdx(pos) == g_groupIdx[pos + 1]

\* Quant::getRateLast (lines 1097-1109)
getRateLast(profile, posx, posy) ==
    LET ctxX == getGroupIdx(posx)
        ctxY == getGroupIdx(posy)
    IN  lastXBits(profile, ctxX) + lastYBits(profile, ctxY)
        + (IF posx > 2 THEN IEP_RATE * Shr(ctxX - 2, 1) ELSE 0)
        + (IF posy > 2 THEN IEP_RATE * Shr(ctxY - 2, 1) ELSE 0)

g_goRiceRange == <<7, 14, 26, 46, 78>>

\* CLZ32: index of the highest set bit of x > 0
RECURSIVE BitScanReverse(_)
BitScanReverse(x) == IF x <= 1 THEN 0 ELSE 1 + BitScanReverse(x \div 2)

\* getICRate (lines 65-118); gob and lab are the two-entry rows greaterOneBits[oneCtx]
\* and levelAbsBits[absCtx]
getICRate(absLevel, diffLevel, gob, lab, absGoRice, c1c2Idx) ==
    IF absLevel = 0 THEN 0
    ELSE IF diffLevel < 0
    THEN gob[IF absLevel = 2 THEN 2 ELSE 1] + (IF absLevel = 2 THEN lab[1] ELSE 0)
    ELSE LET maxVlc    == g_goRiceRange[absGoRice + 1]
             expGolomb == diffLevel > maxVlc
             egsRate   == IF expGolomb
                          THEN Shl(BitScanReverse(diffLevel - maxVlc) * 2 + 1, 15) ELSE 0
             symbol    == IF expGolomb THEN maxVlc + 1 ELSE diffLevel
             prefLen   == Shr(symbol, absGoRice) + 1
             numBins   == Min2(prefLen + absGoRice, 8)
         IN  egsRate + Shl(numBins, 15)
             + (IF c1c2Idx % 2 = 1 THEN gob[2] ELSE 0)
             + (IF c1c2Idx = 3 THEN lab[2] ELSE 0)

\* getICRateCost (lines 121-162)
getICRateCost(absLevel, diffLevel, gob, lab, absGoRice, c1c2Idx) ==
    IF diffLevel < 0
    THEN gob[IF absLevel = 2 THEN 2 ELSE 1] + (IF absLevel = 2 THEN lab[1] ELSE 0)
    ELSE LET pre  == Shr(diffLevel, absGoRice)
             rate == IF pre < COEF_REMAIN_BIN_REDUCTION
                     THEN Shl(pre + 1 + absGoRice, 15)
                     ELSE LET symbol == pre - COEF_REMAIN_BIN_REDUCTION
                              length == IF symbol # 0 THEN BitScanReverse(symbol + 1) ELSE 0
                          IN  Shl(COEF_REMAIN_BIN_REDUCTION + length + absGoRice + 1 + length, 15)
         IN  rate + (IF c1c2Idx % 2 = 1 THEN gob[2] ELSE 0)
                  + (IF c1c2Idx = 3 THEN lab[2] ELSE 0)


(***************************************************************************)
(* Quant::rdoQuant.  K holds what the call fixes (lines 485-530, 560-562), *)
(* S the locals that the loops update.  The per-coefficient arrays         *)
(* costCoeff, costUncoded, costSig are indexed by scan position, dstCoeff, *)
(* deltaU, rateIncUp, rateIncDown, sigRateDelta by block position.         *)
(***************************************************************************)
\* contents of a stack array element that was never written
Uninit == -1431655766

\* the read of element idx of the stack array arr, named name: the element when
\* nothing wrote it since the call began
StaleCost(name, arr, idx) == IF arr[idx] = <<Uninit, 0>> THEN {<<name, idx>>} ELSE {}

StaleInt(name, arr, idx) == IF arr[idx] = Uninit THEN {<<name, idx>>} ELSE {}

\* primitives.nquant(coef, quantCoeff, scaledCoeff, qCoef, qBits, add, numCoeff)
nquant(coef, quantCoeff, qbits, add) ==
    [coeff  |-> Array([i \in DOMAIN coef |-> QuantLevel(coef[i], quantCoeff[i], qbits, add)]),
     scaledCoeff |-> Array([i \in DOMAIN coef |-> Abs(coef[i]) * quantCoeff[i]]),
     numSig |-> Cardinality({i \in DOMAIN coef : QuantAbsLevel(coef[i], quantCoeff[i], qbits, add) # 0})]

RdoListType(isIntra, ttype) == (IF isIntra THEN 0 ELSE 3) + ttype

\* cu->getCtxQtCbf(ttype, trDepth)
getCtxQtCbf(ttype, trDepth) ==
    IF ttype # TEXT_LUMA THEN trDepth ELSE IF trDepth = 0 THEN 1 ELSE 0

\* lines 485-530 and 560-562
RdoContext(resiDct, fencDct, scaledCoeff, e, c, usePsy) ==
    LET transformShift == TransformShift(e.depth, c.log2TrSize)
        listType == RdoListType(c.isIntra, c.ttype)
        shift0   == QUANT_IQUANT_SHIFT - QUANT_SHIFT - transformShift + 4
        wide     == shift0 > Per(e, c)
    IN  [log2TrSize |-> c.log2TrSize,
         trSize     |-> Pow2(c.log2TrSize),
         ttype      |-> c.ttype,
         bIsLuma    |-> c.ttype = TEXT_LUMA,
         isIntra    |-> c.isIntra,
         trIdx      |-> c.trIdx,
         usePsy     |-> usePsy,
         psyScale   |-> e.m_psyRdoqScale,
         per        |-> Per(e, c),
         rem        |-> Rem(e, c),
         qbits      |-> Qbits(e, c),
         add        |-> Pow2(Qbits(e, c) - 1),
         qCoef      |-> m_quantCoef(e.scalingEnabled, c.log2TrSize, listType, Rem(e, c)),
         unquantScale    |-> m_dequantCoef(e.scalingEnabled, c.log2TrSize, listType, Rem(e, c)),
         unquantShift    |-> IF wide THEN shift0 ELSE shift0 + 4,
         unquantRound    |-> IF wide THEN Pow2(shift0 - Per(e, c) - 1) ELSE 0,
         unquantPreshift |-> IF wide THEN 0 ELSE 4,
         scaleBits  |-> SCALE_BITS - 2 * transformShift,
         lam        |-> e.m_lambdas[c.ttype],
         est        |-> e.est,
         signHide   |-> e.bSignHideEnabled,
         resi       |-> resiDct,
         scaledCoeff |-> scaledCoeff,
         fencDct    |-> fencDct,
         cp         |-> CodeParams(c.scanType, c.log2TrSize),
         cgNum      |-> Pow2(2 * (c.log2TrSize - 2))]

RdoInit(K, nq) ==
    LET P == Positions(K.log2TrSize)
    IN  [dstCoeff     |-> nq.coeff,
         costCoeff    |-> Array([i \in P |-> <<Uninit, 0>>]),
         costUncoded  |-> Array([i \in P |-> <<Uninit, 0>>]),
         costSig      |-> Array([i \in P |-> <<Uninit, 0>>]),
         rateIncUp    |-> Array([i \in P |-> Uninit]),
         rateIncDown  |-> Array([i \in P |-> Uninit]),
         sigRateDelta |-> Array([i \in P |-> Uninit]),
         deltaU       |-> Array([i \in P |-> Uninit]),
         costCoeffGroupSig |-> Array([g \in 0 .. (K.cgNum - 1) |-> <<Uninit, 0>>]),
         sigCoeffGroupFlag64 |-> {},
         totalUncodedCost |-> CZero,
         totalRdCost  |-> CZero,
         ctxSet |-> 0, c1 |-> 1, c2 |-> 0, goRiceParam |-> 0, c1Idx |-> 0, c2Idx |-> 0,
         cgLastScanPos |-> -1,
         lastScanPos   |-> -1,
         cgRdStats     |-> [nnzBeforePos0 |-> 0, codedLevelAndDist |-> CZero,
                            uncodedDist |-> CZero, sigCost |-> CZero, sigCost0 |-> CZero],
         zeroedCGs     |-> {},
         chosen        |-> Array([i \in P |-> -1]),
         cabac         |-> {},
         stale         |-> {}]

\* lines 592-595
CostUncoded(K, blkPos) ==
    LET signCoef == K.resi[blkPos]
        c0 == CDist(signCoef * signCoef, K.scaleBits)
    IN  IF K.usePsy /\ blkPos # 0
        THEN CSub(c0, CInt(PsyValue(K.psyScale, K.fencDct[blkPos] - signCoef, K.scaleBits)))
        ELSE c0

\* lines 656-668: the cost of coding level lvl at blkPos
CurCost(K, lvl, blkPos, sigCoefBits, baseLevel, gob, lab, goRiceParam, c1c2Idx) ==
    LET signCoef   == K.resi[blkPos]
        predictedCoef == K.fencDct[blkPos] - signCoef
        levelBits  == getICRateCost(lvl, lvl - baseLevel, gob, lab, goRiceParam, c1c2Idx) + IEP_RATE
        unquantAbsLevel == Shr(Shl(lvl, K.unquantPreshift) * Shl(K.unquantScale[blkPos], K.per)
                               + K.unquantRound, K.unquantShift)
        d          == unquantAbsLevel - Abs(signCoef)
        cost       == CAdd(CDist(d * d, K.scaleBits), CBits(K.lam, sigCoefBits + levelBits))
        reconCoef  == Abs(unquantAbsLevel + (IF signCoef < 0 THEN -predictedCoef ELSE predictedCoef))
    IN  IF K.usePsy /\ blkPos # 0
        THEN CSub(cost, CInt(PsyValue(K.psyScale, reconCoef, K.scaleBits)))
        ELSE cost

\* lines 670-675 of the loop over lvl: level lvl replaces the choice r when its
\* cost cur is lower
TryLevel(K, r, lvl, cur, sigCoefBits) ==
    IF CLess(cur, r.costCoeff)
    THEN [level |-> lvl, costCoeff |-> cur, costSig |-> CBits(K.lam, sigCoefBits)]
    ELSE r

\* lines 633-650 with the default costs of lines 644-646 at lastScanPos as well
DefaultLevelAtLast(maxAbsLevel, isLast, costUnc, sig0) ==
    IF maxAbsLevel < 3
    THEN [level |-> 0, costCoeff |-> CAdd(costUnc, sig0), costSig |-> sig0]
    ELSE [level |-> 0, costCoeff |-> CMax, costSig |-> <<Uninit, 0>>]

\* lines 633-650: the choice before the loop over lvl; sig0 is the cost of
\* the significance bin 0
DefaultLevel(maxAbsLevel, isLast, costUnc, sig0) ==
    IF ~isLast /\ maxAbsLevel < 3
    THEN [level |-> 0, costCoeff |-> CAdd(costUnc, sig0), costSig |-> sig0]
    ELSE [level |-> 0, costCoeff |-> CMax, costSig |-> <<Uninit, 0>>]

\* lines 651-677: the loop tries maxAbsLevel and, when it is at least 1,
\* maxAbsLevel - 1
LevelLoop(K, r0, blkPos, maxAbsLevel, sigCoefBits, baseLevel, gob, lab, goRiceParam, c1c2Idx) ==
    IF maxAbsLevel = 0 THEN r0
    ELSE IF maxAbsLevel - 1 < 1
    THEN TryLevel(K, r0, maxAbsLevel,
                  CurCost(K, maxAbsLevel, blkPos, sigCoefBits, baseLevel, gob, lab, goRiceParam, c1c2Idx),
                  sigCoefBits)
    ELSE TryLevel(K,
                  TryLevel(K, r0, maxAbsLevel,
                           CurCost(K, maxAbsLevel, blkPos, sigCoefBits, baseLevel, gob, lab,
                                   goRiceParam, c1c2Idx),
                           sigCoefBits),
                  maxAbsLevel - 1,
                  CurCost(K, maxAbsLevel - 1, blkPos, sigCoefBits, baseLevel, gob, lab, goRiceParam, c1c2Idx),
                  sigCoefBits)

\* lines 633-677: the level chosen for one coded coefficient, with its costs
LevelSearch(K, blkPos, maxAbsLevel, isLast, ctxSig, costUnc, baseLevel, gob, lab, goRiceParam, c1c2Idx) ==
    LevelLoop(K,
              DefaultLevel(maxAbsLevel, isLast, costUnc, CBits(K.lam, significantBits(K.est, ctxSig, 0))),
              blkPos, maxAbsLevel,
              IF isLast THEN 0 ELSE significantBits(K.est, ctxSig, 1),
              baseLevel, gob, lab, goRiceParam, c1c2Idx)

\* lines 684-694: rateIncUp and rateIncDown of the chosen level
RateInc(level, baseLevel, gob, lab, goRiceParam, c1c2Idx) ==
    IF level # 0
    THEN LET rateNow == getICRate(level, level - baseLevel, gob, lab, goRiceParam, c1c2Idx)
         IN  [up   |-> getICRate(level + 1, level + 1 - baseLevel, gob, lab, goRiceParam, c1c2Idx) - rateNow,
              down |-> getICRate(level - 1, level - 1 - baseLevel, gob, lab, goRiceParam, c1c2Idx) - rateNow]
    ELSE [up |-> gob[1], down |-> 0]

\* lines 696-724 without the block of lines 713-724
CabacUpdateNoReset(S, K, level, baseLevel, scanPos) ==
    [ctxSet |-> S.ctxSet,
     c1 |-> IF level > 1 THEN 0 ELSE IF S.c1 < 3 /\ S.c1 > 0 /\ level # 0 THEN S.c1 + 1 ELSE S.c1,
     c2 |-> IF level > 1 THEN S.c2 + (IF S.c2 < 2 THEN 1 ELSE 0) ELSE S.c2,
     goRiceParam |-> IF level >= baseLevel /\ S.goRiceParam < 4 /\ level > Shl(3, S.goRiceParam)
                     THEN S.goRiceParam + 1 ELSE S.goRiceParam,
     c1Idx |-> S.c1Idx + (IF level > 0 THEN 1 ELSE 0),
     c2Idx |-> IF level > 1 THEN S.c2Idx + 1 ELSE S.c2Idx]

\* lines 696-724: the CABAC estimation state after a coefficient of this level
CabacUpdate(S, K, level, baseLevel, scanPos) ==
    LET goRice == IF level >= baseLevel /\ S.goRiceParam < 4 /\ level > Shl(3, S.goRiceParam)
                  THEN S.goRiceParam + 1 ELSE S.goRiceParam
        c1Idx  == S.c1Idx + (IF level > 0 THEN 1 ELSE 0)
        c1     == IF level > 1 THEN 0
                  ELSE IF S.c1 < 3 /\ S.c1 > 0 /\ level # 0 THEN S.c1 + 1 ELSE S.c1
        c2     == IF level > 1 THEN S.c2 + (IF S.c2 < 2 THEN 1 ELSE 0) ELSE S.c2
        c2Idx  == IF level > 1 THEN S.c2Idx + 1 ELSE S.c2Idx
    IN  IF scanPos % SCAN_SET_SIZE = 0 /\ scanPos # 0
        THEN [ctxSet |-> (IF scanPos = SCAN_SET_SIZE \/ ~K.bIsLuma THEN 0 ELSE 2)
                         + (IF c1 - 1 < 0 THEN 1 ELSE 0),
              c1 |-> 1, c2 |-> 0, goRiceParam |-> 0, c1Idx |-> 0, c2Idx |-> 0]
        ELSE [ctxSet |-> S.ctxSet,
              c1 |-> c1, c2 |-> c2, goRiceParam |-> goRice, c1Idx |-> c1Idx, c2Idx |-> c2Idx]

\* CGStats without line 733: a coded level does not mark its group significant
CGStatsUnflagged(S, scanPos, scanPosinCG, blkPos, cgBlkPos) ==
    LET st == S.cgRdStats
        st1 == [st EXCEPT !.sigCost  = CAdd(@, S.costSig[scanPos]),
                          !.sigCost0 = IF scanPosinCG = 0 THEN S.costSig[scanPos] ELSE @]
    IN  IF S.dstCoeff[blkPos] # 0
        THEN [S EXCEPT !.cgRdStats = [st1 EXCEPT
                           !.codedLevelAndDist = CAdd(@, CSub(S.costCoeff[scanPos], S.costSig[scanPos])),
                           !.uncodedDist = CAdd(@, S.costUncoded[scanPos]),
                           !.nnzBeforePos0 = @ + scanPosinCG]]
        ELSE [S EXCEPT !.cgRdStats = st1]

\* lines 727-737: the coefficient's contribution to the statistics of its group
CGStats(S, scanPos, scanPosinCG, blkPos, cgBlkPos) ==
    LET st == S.cgRdStats
        st1 == [st EXCEPT !.sigCost  = CAdd(@, S.costSig[scanPos]),
                          !.sigCost0 = IF scanPosinCG = 0 THEN S.costSig[scanPos] ELSE @]
    IN  IF S.dstCoeff[blkPos] # 0
        THEN [S EXCEPT !.sigCoeffGroupFlag64 = @ \cup {cgBlkPos},
                       !.cgRdStats = [st1 EXCEPT
                           !.codedLevelAndDist = CAdd(@, CSub(S.costCoeff[scanPos], S.costSig[scanPos])),
                           !.uncodedDist = CAdd(@, S.costUncoded[scanPos]),
                           !.nnzBeforePos0 = @ + scanPosinCG],
                       !.stale = @ \cup StaleCost("costSig", S.costSig, scanPos)
                                   \cup StaleCost("costCoeff", S.costCoeff, scanPos)]
        ELSE [S EXCEPT !.cgRdStats = st1,
                       !.stale = @ \cup StaleCost("costSig", S.costSig, scanPos)]

\* lines 592-605 without the block of lines 599-605
RdoCoefUncodedNoLast(S, K, cgScanPos, scanPos, maxAbsLevel, costUnc) ==
    [S EXCEPT !.costUncoded[scanPos] = costUnc,
              !.totalUncodedCost = CAdd(@, costUnc)]

\* lines 592-605: the uncoded cost of the coefficient, and the last position
\* when this is the first non-zero level met
RdoCoefUncoded(S, K, cgScanPos, scanPos, maxAbsLevel, costUnc) ==
    IF maxAbsLevel # 0 /\ S.lastScanPos < 0
    THEN [S EXCEPT !.costUncoded[scanPos] = costUnc,
                   !.totalUncodedCost = CAdd(@, costUnc),
                   !.lastScanPos = scanPos,
                   !.ctxSet = IF scanPos < SCAN_SET_SIZE \/ ~K.bIsLuma THEN 0 ELSE 2,
                   !.cgLastScanPos = cgScanPos]
    ELSE [S EXCEPT !.costUncoded[scanPos] = costUnc,
                   !.totalUncodedCost = CAdd(@, costUnc)]

\* the CABAC estimation state of lines 545-550
CabacOf(S) ==
    [ctxSet |-> S.ctxSet, c1 |-> S.c1, c2 |-> S.c2, goRiceParam |-> S.goRiceParam,
     c1Idx |-> S.c1Idx, c2Idx |-> S.c2Idx]

\* lines 679-694 and 696-724: the chosen level r is stored with its costs, its
\* rate increments inc and the CABAC estimation state cab after it
RdoCoefStore(S, K, scanPos, blkPos, isLast, ctxSig, r, inc, cab) ==
    [S EXCEPT
       !.sigRateDelta[blkPos] =
            IF isLast THEN 0
            ELSE significantBits(K.est, ctxSig, 1) - significantBits(K.est, ctxSig, 0),
       !.costCoeff[scanPos] = r.costCoeff,
       !.costSig[scanPos] = r.costSig,
       !.deltaU[blkPos] = Shr(K.scaledCoeff[blkPos] - Shl(r.level, K.qbits), K.qbits - 8),
       !.dstCoeff[blkPos] = r.level,
       !.chosen[blkPos] = r.level,
       !.cabac = @ \cup {[scanPos |-> scanPos, level |-> r.level, pre |-> CabacOf(S), post |-> cab]},
       !.totalRdCost = CAdd(@, r.costCoeff),
       !.rateIncUp[blkPos] = inc.up,
       !.rateIncDown[blkPos] = inc.down,
       !.ctxSet = cab.ctxSet, !.c1 = cab.c1, !.c2 = cab.c2,
       !.goRiceParam = cab.goRiceParam, !.c1Idx = cab.c1Idx, !.c2Idx = cab.c2Idx]

\* lines 684-724 for the chosen level r
RdoCoefChosen(S, K, scanPos, blkPos, isLast, ctxSig, r, baseLevel, gob, lab, c1c2Idx) ==
    RdoCoefStore(S, K, scanPos, blkPos, isLast, ctxSig, r,
                 RateInc(r.level, baseLevel, gob, lab, S.goRiceParam, c1c2Idx),
                 CabacUpdate(S, K, r.level, baseLevel, scanPos))

\* lines 628-724 with the contexts of the coefficient
RdoCoefSearch(S, K, scanPos, blkPos, maxAbsLevel, ctxSig, baseLevel, gob, lab, c1c2Idx) ==
    RdoCoefChosen(S, K, scanPos, blkPos, scanPos = S.lastScanPos, ctxSig,
                  LevelSearch(K, blkPos, maxAbsLevel, scanPos = S.lastScanPos, ctxSig,
                              S.costUncoded[scanPos], baseLevel, gob, lab, S.goRiceParam, c1c2Idx),
                  baseLevel, gob, lab, c1c2Idx)

\* lines 620-625: c1c2Idx, and the context tables it selects
C1C2Idx(S) == (IF S.c1Idx < C1FLAG_NUMBER THEN 1 ELSE 0) + (IF S.c2Idx = 0 THEN 2 ELSE 0)

BaseLevel(c1c2Idx) == <<1, 2, 1, 3>>[c1c2Idx + 1]

\* lines 607-725: a coefficient before the last one costs its distortion, any
\* other gets its level
RdoCoefCode(S, K, scanPos, blkPos, maxAbsLevel, patternSigCtx) ==
    IF S.lastScanPos < 0
    THEN [S EXCEPT !.costCoeff[scanPos] = CZero,
                   !.totalRdCost = CAdd(@, S.costUncoded[scanPos]),
                   !.costSig[scanPos] = CZero]
    ELSE RdoCoefSearch(S, K, scanPos, blkPos, maxAbsLevel,
                       getSigCtxInc(patternSigCtx, K.log2TrSize, K.trSize, blkPos, K.bIsLuma,
                                    K.cp.firstSignificanceMapContext),
                       BaseLevel(C1C2Idx(S)),
                       <<greaterOneBits(K.est, 4 * S.ctxSet + S.c1, 0),
                         greaterOneBits(K.est, 4 * S.ctxSet + S.c1, 1)>>,
                       <<levelAbsBits(K.est, S.ctxSet + S.c2, 0),
                         levelAbsBits(K.est, S.ctxSet + S.c2, 1)>>,
                       C1C2Idx(S))

\* lines 581-737 at scan position scanPos, block position blkPos
RdoCoefAt(S, K, cgScanPos, scanPosinCG, scanPos, blkPos, patternSigCtx) ==
    CGStats(RdoCoefCode(RdoCoefUncoded(S, K, cgScanPos, scanPos, Abs(S.dstCoeff[blkPos]),
                                       CostUncoded(K, blkPos)),
                        K, scanPos, blkPos, Abs(S.dstCoeff[blkPos]), patternSigCtx),
            scanPos, scanPosinCG, blkPos, K.cp.scanCG[cgScanPos])

\* body of the loop over the coefficients of a group (lines 581-737)
RdoCoef(S, K, cgScanPos, scanPosinCG, patternSigCtx) ==
    RdoCoefAt(S, K, cgScanPos, scanPosinCG, Shl(cgScanPos, MLS_CG_SIZE) + scanPosinCG,
              K.cp.scan[Shl(cgScanPos, MLS_CG_SIZE) + scanPosinCG], patternSigCtx)

RECURSIVE RdoCoefLoop(_, _, _, _, _)
RdoCoefLoop(S, K, cgScanPos, scanPosinCG, patternSigCtx) ==
    IF scanPosinCG < 0 THEN S
    ELSE LET S1 == RdoCoef(S, K, cgScanPos, scanPosinCG, patternSigCtx)
         IN  IF Evaluated(S1)
             THEN RdoCoefLoop(S1, K, cgScanPos, scanPosinCG - 1, patternSigCtx)
             ELSE S1


\* lines 789-800 without the stores: the group keeps its levels
UncodeCGKeepLevels(S, K, cgScanPos) == [S EXCEPT !.zeroedCGs = @ \cup {cgScanPos}]

\* lines 789-800: every level of the group becomes zero
UncodeCG(S, K, cgScanPos) ==
    LET inCG(scanPos) == scanPos \div SCAN_SET_SIZE = cgScanPos
        coded(scanPos) == inCG(scanPos) /\ S.dstCoeff[K.cp.scan[scanPos]] # 0
    IN  [S EXCEPT
           !.costCoeff = Array([p \in DOMAIN @ |-> IF coded(p) THEN S.costUncoded[p] ELSE @[p]]),
           !.costSig   = Array([p \in DOMAIN @ |-> IF coded(p) THEN CZero ELSE @[p]]),
           !.dstCoeff  = Array([b \in DOMAIN @ |->
                            IF \E p \in DOMAIN K.cp.scan : inCG(p) /\ K.cp.scan[p] = b THEN 0 ELSE @[b]]),
           !.zeroedCGs = @ \cup {cgScanPos}]

\* lines 773-801: the group is coded, or zeroed when that costs less; total0
\* and sigCost are totalRdCost and cgRdStats.sigCost after lines 766-771
RdoCGDecide(S, K, cgScanPos, cgBlkPos, total0, sigCost, cost0, cost1, costZeroCG) ==
    IF CLess(costZeroCG, CAdd(total0, cost1))
    THEN UncodeCG([S EXCEPT !.sigCoeffGroupFlag64 = @ \ {cgBlkPos},
                            !.totalRdCost = costZeroCG,
                            !.costCoeffGroupSig[cgScanPos] = cost0,
                            !.cgRdStats.sigCost = sigCost],
                  K, cgScanPos)
    ELSE [S EXCEPT !.totalRdCost = CAdd(total0, cost1),
                   !.costCoeffGroupSig[cgScanPos] = cost1,
                   !.cgRdStats.sigCost = sigCost]

\* lines 762-802: a coded group before the last one
RdoCGCoded(S, K, cgScanPos, cgBlkPos, total0, sigCost, cost0, cost1) ==
    RdoCGDecide(S, K, cgScanPos, cgBlkPos, total0, sigCost, cost0, cost1,
                CSub(CSub(CAdd(CAdd(total0, cost0), S.cgRdStats.uncodedDist),
                          S.cgRdStats.codedLevelAndDist), sigCost))

\* RdoCGCosts without the store of line 742 for group 0
RdoCGCostsGroup0Unwritten(S, K, cgScanPos, cgBlkPos, cost0, cost1) ==
    IF S.cgLastScanPos < 0 THEN S
    ELSE IF cgScanPos = 0
    THEN [S EXCEPT !.sigCoeffGroupFlag64 = @ \cup {cgBlkPos}]
    ELSE IF cgBlkPos \notin S.sigCoeffGroupFlag64
    THEN [S EXCEPT !.costCoeffGroupSig[cgScanPos] = cost0,
                   !.totalRdCost = CSub(CAdd(@, cost0), S.cgRdStats.sigCost)]
    ELSE IF cgScanPos < S.cgLastScanPos
    THEN IF S.cgRdStats.nnzBeforePos0 = 0
         THEN RdoCGCoded(S, K, cgScanPos, cgBlkPos,
                         CSub(S.totalRdCost, S.cgRdStats.sigCost0),
                         CSub(S.cgRdStats.sigCost, S.cgRdStats.sigCost0), cost0, cost1)
         ELSE RdoCGCoded(S, K, cgScanPos, cgBlkPos, S.totalRdCost, S.cgRdStats.sigCost, cost0, cost1)
    ELSE [S EXCEPT !.costCoeffGroupSig[cgScanPos] = CZero]

\* lines 741-805 with the costs cost0 and cost1 of the two values of the
\* group's bit in the significant-group bitmap
RdoCGCosts(S, K, cgScanPos, cgBlkPos, cost0, cost1) ==
    IF S.cgLastScanPos < 0 THEN S
    ELSE IF cgScanPos = 0
    THEN [S EXCEPT !.costCoeffGroupSig[cgScanPos] = CZero,
                   !.sigCoeffGroupFlag64 = @ \cup {cgBlkPos}]
    ELSE IF cgBlkPos \notin S.sigCoeffGroupFlag64
    THEN [S EXCEPT !.costCoeffGroupSig[cgScanPos] = cost0,
                   !.totalRdCost = CSub(CAdd(@, cost0), S.cgRdStats.sigCost)]
    ELSE IF cgScanPos < S.cgLastScanPos
    THEN IF S.cgRdStats.nnzBeforePos0 = 0
         THEN RdoCGCoded(S, K, cgScanPos, cgBlkPos,
                         CSub(S.totalRdCost, S.cgRdStats.sigCost0),
                         CSub(S.cgRdStats.sigCost, S.cgRdStats.sigCost0), cost0, cost1)
         ELSE RdoCGCoded(S, K, cgScanPos, cgBlkPos, S.totalRdCost, S.cgRdStats.sigCost, cost0, cost1)
    ELSE [S EXCEPT !.costCoeffGroupSig[cgScanPos] = CZero]

\* getSigCoeffGroupCtxInc for the group at CG raster position cgBlkPos; the
\* blocks tried have at most 4 groups and the shift stays below 64
CGCtx(S, K, cgBlkPos) ==
    getSigCoeffGroupCtxInc(S.sigCoeffGroupFlag64,
                           cgBlkPos % Pow2(K.cp.log2TrSizeCG), cgBlkPos \div Pow2(K.cp.log2TrSizeCG),
                           K.cp.log2TrSizeCG, {})

\* lines 740-805: the costs of a coefficient group, after its coefficients
RdoCGSummary(S, K, cgScanPos) ==
    RdoCGCosts(S, K, cgScanPos, K.cp.scanCG[cgScanPos],
               CBits(K.lam, significantCoeffGroupBits(K.est, CGCtx(S, K, K.cp.scanCG[cgScanPos]), 0)),
               CBits(K.lam, significantCoeffGroupBits(K.est, CGCtx(S, K, K.cp.scanCG[cgScanPos]), 1)))

\* body of the loop over the coefficient groups (lines 570-805)
RdoCG(S, K, cgScanPos) ==
    LET cgBlkPos == K.cp.scanCG[cgScanPos]
        cgPosY   == cgBlkPos \div Pow2(K.cp.log2TrSizeCG)
        cgPosX   == cgBlkPos - Shl(cgPosY, K.cp.log2TrSizeCG)
        patternSigCtx == calcPatternSigCtx(S.sigCoeffGroupFlag64, cgPosX, cgPosY, K.cp.log2TrSizeCG, {})
        S0 == [S EXCEPT !.cgRdStats = [nnzBeforePos0 |-> 0, codedLevelAndDist |-> CZero,
                                       uncodedDist |-> CZero, sigCost |-> CZero, sigCost0 |-> CZero]]
    IN  RdoCGSummary(RdoCoefLoop(S0, K, cgScanPos, SCAN_SET_SIZE - 1, patternSigCtx), K, cgScanPos)

RECURSIVE RdoCGLoop(_, _, _)
RdoCGLoop(S, K, cgScanPos) ==
    IF cgScanPos < 0 THEN S
    ELSE LET S1 == RdoCG(S, K, cgScanPos)
         IN  IF Evaluated(S1) THEN RdoCGLoop(S1, K, cgScanPos - 1) ELSE S1

\* lines 814-826: the cost of the uncoded block, and totalRdCost with the cbf bit
CbfCosts(S, K) ==
    IF ~K.isIntra /\ K.bIsLuma /\ K.trIdx = 0
    THEN [bestCost    |-> CAdd(S.totalUncodedCost, CBits(K.lam, blockRootCbpBits(K.est, 0, 0))),
          totalRdCost |-> CAdd(S.totalRdCost, CBits(K.lam, blockRootCbpBits(K.est, 0, 1)))]
    ELSE LET ctx == getCtxQtCbf(K.ttype, K.trIdx)
         IN  [bestCost    |-> CAdd(S.totalUncodedCost, CBits(K.lam, blockCbpBits(K.est, ctx, 0))),
              totalRdCost |-> CAdd(S.totalRdCost, CBits(K.lam, blockCbpBits(K.est, ctx, 1)))]

\* lines 846-869: the position holds the current last non-zero level, and
\* rdCostLast is the cost of the block that ends with it
LastPosCoded(T, S, scanPos, level, rdCostLast) ==
    IF level > 1
    THEN [T EXCEPT !.bestLastIdx = IF CLess(rdCostLast, T.bestCost) THEN scanPos + 1 ELSE @,
                   !.bestCost    = IF CLess(rdCostLast, T.bestCost) THEN rdCostLast ELSE @,
                   !.foundLast   = TRUE,
                   !.stale       = @ \cup StaleCost("costSig", S.costSig, scanPos)]
    ELSE [T EXCEPT !.bestLastIdx = IF CLess(rdCostLast, T.bestCost) THEN scanPos + 1 ELSE @,
                   !.bestCost    = IF CLess(rdCostLast, T.bestCost) THEN rdCostLast ELSE @,
                   !.totalRdCost = CAdd(CSub(@, S.costCoeff[scanPos]), S.costUncoded[scanPos]),
                   !.stale       = @ \cup StaleCost("costSig", S.costSig, scanPos)
                                     \cup StaleCost("costCoeff", S.costCoeff, scanPos)]

\* lines 849-851: the bits of a last position at block position blkPos
BitsLast(K, blkPos) ==
    IF K.cp.scanType = SCAN_VER
    THEN getRateLast(K.est, blkPos \div K.trSize, blkPos % K.trSize)
    ELSE getRateLast(K.est, blkPos % K.trSize, blkPos \div K.trSize)

\* lines 841-871: one position of the search for the last coefficient
LastPosCoef(T, S, K, scanPos) ==
    IF scanPos > S.lastScanPos THEN T
    ELSE IF S.dstCoeff[K.cp.scan[scanPos]] # 0
    THEN LastPosCoded(T, S, scanPos, S.dstCoeff[K.cp.scan[scanPos]],
                      CSub(CAdd(T.totalRdCost, CBits(K.lam, BitsLast(K, K.cp.scan[scanPos]))),
                           S.costSig[scanPos]))
    ELSE [T EXCEPT !.totalRdCost = CSub(@, S.costSig[scanPos]),
                   !.stale = @ \cup StaleCost("costSig", S.costSig, scanPos)]

RECURSIVE LastPosInCG(_, _, _, _, _)
LastPosInCG(T, S, K, cgScanPos, scanPosinCG) ==
    IF scanPosinCG < 0 \/ T.foundLast THEN T
    ELSE LET T1 == LastPosCoef(T, S, K, cgScanPos * SCAN_SET_SIZE + scanPosinCG)
         IN  IF Evaluated(T1) THEN LastPosInCG(T1, S, K, cgScanPos, scanPosinCG - 1) ELSE T1

\* lines 831-873
RECURSIVE LastPosSearch(_, _, _, _)
LastPosSearch(T, S, K, cgScanPos) ==
    IF cgScanPos < 0 \/ T.foundLast THEN T
    ELSE LET T1 == [T EXCEPT !.totalRdCost = CSub(@, S.costCoeffGroupSig[cgScanPos]),
                             !.stale = @ \cup StaleCost("costCoeffGroupSig", S.costCoeffGroupSig,
                                                        cgScanPos)]
         IN  IF K.cp.scanCG[cgScanPos] \notin S.sigCoeffGroupFlag64
             THEN LastPosSearch(T1, S, K, cgScanPos - 1)
             ELSE LET T2 == LastPosInCG(T1, S, K, cgScanPos, SCAN_SET_SIZE - 1)
                  IN  IF Evaluated(T2) THEN LastPosSearch(T2, S, K, cgScanPos - 1) ELSE T2

\* RdoSignAndClean without lines 883-884: the levels stay absolute values
RdoCleanUnsigned(S, K, bestLastIdx) ==
    LET posOf(b) == CHOOSE p \in DOMAIN K.cp.scan : K.cp.scan[p] = b
    IN  [coeff  |-> Array([b \in DOMAIN S.dstCoeff |->
                       IF posOf(b) < bestLastIdx THEN S.dstCoeff[b]
                       ELSE IF posOf(b) <= S.lastScanPos THEN 0
                       ELSE S.dstCoeff[b]]),
         numSig |-> Cardinality({p \in 0 .. (bestLastIdx - 1) : S.dstCoeff[K.cp.scan[p]] # 0})]

\* RdoSignAndClean without lines 887-889: the levels from bestLastIdx on stay
RdoSignUncleaned(S, K, bestLastIdx) ==
    LET posOf(b) == CHOOSE p \in DOMAIN K.cp.scan : K.cp.scan[p] = b
    IN  [coeff  |-> Array([b \in DOMAIN S.dstCoeff |->
                       IF K.resi[b] < 0 THEN -S.dstCoeff[b] ELSE S.dstCoeff[b]]),
         numSig |-> Cardinality({p \in 0 .. (bestLastIdx - 1) : S.dstCoeff[K.cp.scan[p]] # 0})]

\* RdoSignAndClean that cleans from the position after bestLastIdx
RdoCleanLate(S, K, bestLastIdx) ==
    LET posOf(b) == CHOOSE p \in DOMAIN K.cp.scan : K.cp.scan[p] = b
    IN  [coeff  |-> Array([b \in DOMAIN S.dstCoeff |->
                       IF posOf(b) < bestLastIdx + 1
                       THEN (IF K.resi[b] < 0 THEN -S.dstCoeff[b] ELSE S.dstCoeff[b])
                       ELSE IF posOf(b) <= S.lastScanPos THEN 0
                       ELSE S.dstCoeff[b]]),
         numSig |-> Cardinality({p \in 0 .. bestLastIdx : p \in DOMAIN K.cp.scan
                                                          /\ S.dstCoeff[K.cp.scan[p]] # 0})]

\* lines 875-889: signs re-applied below bestLastIdx, zero from there to lastScanPos
RdoSignAndClean(S, K, bestLastIdx) ==
    LET posOf(b) == CHOOSE p \in DOMAIN K.cp.scan : K.cp.scan[p] = b
    IN  [coeff  |-> Array([b \in DOMAIN S.dstCoeff |->
                       IF posOf(b) < bestLastIdx
                       THEN (IF K.resi[b] < 0 THEN -S.dstCoeff[b] ELSE S.dstCoeff[b])
                       ELSE IF posOf(b) <= S.lastScanPos THEN 0
                       ELSE S.dstCoeff[b]]),
         numSig |-> Cardinality({p \in 0 .. (bestLastIdx - 1) : S.dstCoeff[K.cp.scan[p]] # 0})]


\* line 894-895: rdFactor = (int64_t)(invQuant * invQuant / (lambda2 * 16) + 0.5)
RdFactor(K) ==
    LET invQuant == Shl(s_invQuantScales[K.rem + 1], K.per)
    IN  (2 * invQuant * invQuant + K.lam) \div (2 * K.lam)

\* one iteration of the candidate loop of the RD sign-hiding (lines 943-989);
\* MAX_INT stands for MAX_INT64, every real cost is below it
RdoSbhCandidate(dstCoeff, S, K, blkPos, n, firstNZPosInCG, lastNZPosInCG, lastCG, signbit, acc) ==
    LET rdFactor == RdFactor(K)
        isOne    == Abs(dstCoeff[blkPos]) = 1
        costUp   == rdFactor * (-S.deltaU[blkPos]) + S.rateIncUp[blkPos]
        costDown == rdFactor * S.deltaU[blkPos] + S.rateIncDown[blkPos]
                    - (IF isOne THEN 32768 + S.sigRateDelta[blkPos] ELSE 0)
                    - (IF lastCG /\ lastNZPosInCG = n /\ isOne THEN 4 * 32768 ELSE 0)
        cur ==
          IF dstCoeff[blkPos] # 0
          THEN IF costUp < costDown
               THEN [curCost |-> costUp, curChange |-> 1]
               ELSE IF n = firstNZPosInCG /\ isOne
                    THEN [curCost |-> MAX_INT, curChange |-> -1]
                    ELSE [curCost |-> costDown, curChange |-> -1]
          ELSE IF n < firstNZPosInCG /\ (IF K.resi[blkPos] >= 0 THEN 0 ELSE 1) # signbit
               THEN [curCost |-> MAX_INT, curChange |-> 1]
               ELSE [curCost |-> rdFactor * (-Abs(S.deltaU[blkPos])) + 32768
                                 + S.rateIncUp[blkPos] + S.sigRateDelta[blkPos],
                     curChange |-> 1]
        read == StaleInt("deltaU", S.deltaU, blkPos) \cup StaleInt("rateIncUp", S.rateIncUp, blkPos)
                \cup (IF dstCoeff[blkPos] # 0
                      THEN StaleInt("rateIncDown", S.rateIncDown, blkPos) ELSE {})
                \cup (IF dstCoeff[blkPos] = 0 \/ isOne
                      THEN StaleInt("sigRateDelta", S.sigRateDelta, blkPos) ELSE {})
    IN  IF cur.curCost < acc.minCostInc
        THEN [minCostInc |-> cur.curCost, finalChange |-> cur.curChange, minPos |-> blkPos,
              stale |-> acc.stale \cup read]
        ELSE [acc EXCEPT !.stale = @ \cup read]

RECURSIVE RdoSbhSearch(_, _, _, _, _, _, _, _, _, _)
RdoSbhSearch(dstCoeff, S, K, subPos, n, firstNZPosInCG, lastNZPosInCG, lastCG, signbit, acc) ==
    IF n < 0 THEN acc
    ELSE LET acc1 == RdoSbhCandidate(dstCoeff, S, K, K.cp.scan[n + subPos], n, firstNZPosInCG,
                                     lastNZPosInCG, lastCG, signbit, acc)
         IN  IF Evaluated(acc1)
             THEN RdoSbhSearch(dstCoeff, S, K, subPos, n - 1, firstNZPosInCG, lastNZPosInCG, lastCG,
                               signbit, acc1)
             ELSE acc1

\* body of the loop over the coefficient groups (lines 900-1007); a group
\* without a non-zero level leaves lastCG as it is
RdoSbhCG(st, S, K, subSet) ==
    LET subPos == Shl(subSet, LOG2_SCAN_SET_SIZE)
        lastNZ == LastNZPosInCG(st.coeff, K.cp.scan, subPos)
    IN  IF lastNZ < 0 THEN st
        ELSE
          LET firstNZ == FirstNZPosInCG(st.coeff, K.cp.scan, subPos)
              signbit == SignBit(st.coeff[K.cp.scan[subPos + firstNZ]])
              absSum  == CGAbsSum(st.coeff, K.cp.scan, subPos, firstNZ, lastNZ)
              acc0    == [minCostInc |-> MAX_INT, finalChange |-> 0, minPos |-> -1, stale |-> {}]
              acc     == RdoSbhSearch(st.coeff, S, K, subPos,
                                      IF st.lastCG THEN lastNZ ELSE SCAN_SET_SIZE - 1,
                                      firstNZ, lastNZ, st.lastCG, signbit, acc0)
              st1     == IF HidesSign(firstNZ, lastNZ) /\ signbit # (absSum % 2)
                         THEN [ApplyChange(st, K.resi, acc.minPos, acc.finalChange)
                                 EXCEPT !.changed = @ \cup {acc.minPos},
                                        !.stale = @ \cup acc.stale]
                         ELSE st
          IN  [st1 EXCEPT !.lastCG = FALSE]

RECURSIVE RdoSbhLoop(_, _, _, _)
RdoSbhLoop(st, S, K, subSet) ==
    IF subSet < 0 THEN st
    ELSE LET st1 == RdoSbhCG(st, S, K, subSet)
         IN  IF Evaluated(st1) THEN RdoSbhLoop(st1, S, K, subSet - 1) ELSE st1

\* what rdoQuant leaves when it returns early (lines 502-503 and 808-812)
RdoEarly(levels, nq) ==
    [coeff |-> levels, numSig |-> 0,
     loc |-> [path |-> "rdoq", sbh |-> FALSE, pre |-> nq.coeff, oob |-> FALSE,
              nquant |-> nq.coeff, bestLastIdx |-> 0, lastScanPos |-> -1, cgLastScanPos |-> -1,
              sigCoeffGroupFlag64 |-> {}, zeroedCGs |-> {}, changed |-> {}, searched |-> FALSE,
              coded |-> levels, chosen |-> Array([i \in DOMAIN levels |-> -1]),
              cabac |-> {}, stale |-> {}]]

\* line 1011, with the locals the properties refer to
RdoResult(nq, S, T, cl, sbh, st) ==
    [coeff |-> st.coeff, numSig |-> st.numSig,
     loc |-> [path |-> "rdoq", sbh |-> sbh, pre |-> cl.coeff, oob |-> st.oob,
              nquant |-> nq.coeff, bestLastIdx |-> T.bestLastIdx,
              lastScanPos |-> S.lastScanPos, cgLastScanPos |-> S.cgLastScanPos,
              sigCoeffGroupFlag64 |-> S.sigCoeffGroupFlag64, zeroedCGs |-> S.zeroedCGs,
              changed |-> st.changed, searched |-> TRUE, coded |-> S.dstCoeff,
              chosen |-> S.chosen, cabac |-> S.cabac,
              stale |-> S.stale \cup T.stale \cup st.stale]]

\* lines 891-1009: the rate-distortion based sign-hiding of the cleaned levels cl
RdoSignHiding(nq, K, S, T, cl) ==
    IF K.signHide /\ cl.numSig >= 2
    THEN RdoResult(nq, S, T, cl, TRUE,
                   RdoSbhLoop([coeff |-> cl.coeff, numSig |-> cl.numSig, lastCG |-> TRUE,
                               oob |-> FALSE, changed |-> {}, stale |-> {}],
                              S, K, S.cgLastScanPos))
    ELSE RdoResult(nq, S, T, cl, FALSE,
                   [coeff |-> cl.coeff, numSig |-> cl.numSig, lastCG |-> TRUE,
                    oob |-> FALSE, changed |-> {}, stale |-> {}])

\* lines 829-830: the search starts from the costs of lines 814-826
LastPosInit(cbf) ==
    [totalRdCost |-> cbf.totalRdCost, bestCost |-> cbf.bestCost, bestLastIdx |-> 0,
     foundLast |-> FALSE, stale |-> {}]

\* lines 875-1011 after the search T for the last position
RdoFinish(nq, K, S, T) == RdoSignHiding(nq, K, S, T, RdoSignAndClean(S, K, T.bestLastIdx))

\* lines 808-1011 after the loop over the coefficient groups
RdoAfterCGs(nq, K, S) ==
    IF S.lastScanPos < 0 THEN RdoEarly(S.dstCoeff, nq)
    ELSE RdoFinish(nq, K, S, LastPosSearch(LastPosInit(CbfCosts(S, K)), S, K, S.cgLastScanPos))

\* lines 505-1011 with the constants K of the call
RdoCoded(nq, K) == RdoAfterCGs(nq, K, RdoCGLoop(RdoInit(K, nq), K, K.cgNum - 1))

\* lines 501-1011 after nquant
RdoQuantized(nq, resiDct, fencDct, e, c, usePsy) ==
    IF nq.numSig = 0 THEN RdoEarly(nq.coeff, nq)
    ELSE RdoCoded(nq, RdoContext(resiDct, fencDct, nq.scaledCoeff, e, c, usePsy))

\* Quant::rdoQuant (lines 483-1012): the levels, the return value and the locals
\* the properties refer to
rdoQuant(resiDct, fencDct, e, c, usePsy) ==
    RdoQuantized(nquant(resiDct,
                        m_quantCoef(e.scalingEnabled, c.log2TrSize, RdoListType(c.isIntra, c.ttype),
                                    Rem(e, c)),
                        Qbits(e, c), Pow2(Qbits(e, c) - 1)),
                 resiDct, fencDct, e, c, usePsy)

(***************************************************************************)
(* Quant::transformNxN as a whole                                          *)
(***************************************************************************)
\* the source pixels of the block: prediction plus residual, inside the pixel range
Fenc(resiBlock, depth) ==
    Array([i \in DOMAIN resiBlock |->
        LET r    == resiBlock[i]
            pred == Clip3(Max2(0, -r), Min2(Pow2(depth) - 1, Pow2(depth) - 1 - r), 16 + 9 * (i % 5))
        IN  pred + r])

\* line 335
UsePsy(e, c) == e.m_psyRdoqScale # 0 /\ c.ttype = TEXT_LUMA /\ ~c.useTransformSkip

\* lines 383-408: t is the transformed residual (and the noise reduction state)
Quantize(t, fencDct, e, c) ==
    IF e.m_useRDOQ
    THEN rdoQuant(t.coef, fencDct, e, c, UsePsy(e, c))
    ELSE ScalarQuant(t.coef, e, c)

\* what transformNxN leaves: the levels, the return value, the scratch
\* buffer, the noise reduction state
TransformResult(t, q) ==
    [coeff |-> q.coeff, numSig |-> q.numSig, resiDct |-> t.coef, nr |-> t.nr, loc |-> q.loc]

\* lines 341-408 with the transformed residual t
TransformQuant(resi, t, e, c) ==
    TransformResult(t,
        Quantize(t,
                 IF UsePsy(e, c)
                 THEN dct(Fenc(BlockOf(resi, Pow2(c.log2TrSize), c.stride), e.depth), c.log2TrSize,
                          c.log2TrSize = 2 /\ c.ttype = TEXT_LUMA /\ c.isIntra, e.depth)
                 ELSE Array([i \in Positions(c.log2TrSize) |-> 0]),
                 e, c))

\* lines 328-332
BypassResult(r, dctBefore, nr) ==
    [coeff |-> r.coeff, numSig |-> r.numSig, resiDct |-> dctBefore, nr |-> nr,
     loc |-> [path |-> "bypass", sbh |-> FALSE, pre |-> r.coeff, oob |-> FALSE]]

\* lines 325-409: the levels, the return value, the new scratch buffer and noise
\* reduction state
transformNxN(resi, dctBefore, nr, e, c) ==
    IF c.bypass
    THEN BypassResult(TransformBypass(resi, c.log2TrSize, c.stride), dctBefore, nr)
    ELSE IF c.useTransformSkip
    THEN TransformQuant(resi, [coef |-> TransformSkip(resi, c.log2TrSize, c.stride, e.depth), nr |-> nr],
                        e, c)
    ELSE TransformQuant(resi, TransformDct(resi, nr, e, c), e, c)

\* the contents of a buffer after block d was stored at its start
StoredAt(before, d) ==
    Array([i \in DOMAIN before \cup DOMAIN d |-> IF i \in DOMAIN d THEN d[i] ELSE before[i]])

\* lines 366-371: m_fencDctCoeff after a call whose source block is fencBlock
FencDctStored(fencBlock, before, e, c) ==
    IF UsePsy(e, c) /\ ~c.bypass
    THEN StoredAt(before, dct(fencBlock, c.log2TrSize,
                              c.log2TrSize = 2 /\ c.ttype = TEXT_LUMA /\ c.isIntra, e.depth))
    ELSE before

\* m_fencDctCoeff after a call on the source block Fenc of the residual
FencDctAfter(resi, before, e, c) ==
    FencDctStored(Fenc(BlockOf(resi, Pow2(c.log2TrSize), c.stride), e.depth), before, e, c)

\* lines 341-408 with the transformed residual t and the contents fencDct of
\* m_fencDctCoeff
TransformQuantFenc(t, fencDct, e, c) == TransformResult(t, Quantize(t, fencDct, e, c))

\* lines 325-409 for the source block fencBlock, m_fencDctCoeff holding
\* fencDctBefore at the call
transformNxNFenc(fencBlock, fencDctBefore, resi, dctBefore, nr, e, c) ==
    IF c.bypass
    THEN BypassResult(TransformBypass(resi, c.log2TrSize, c.stride), dctBefore, nr)
    ELSE IF c.useTransformSkip
    THEN TransformQuantFenc([coef |-> TransformSkip(resi, c.log2TrSize, c.stride, e.depth), nr |-> nr],
                            fencDctBefore, e, c)
    ELSE TransformQuantFenc(TransformDct(resi, nr, e, c),
                            FencDctStored(fencBlock, fencDctBefore, e, c), e, c)

(***************************************************************************)
(* Quant::invtransformNxN                                                  *)
(***************************************************************************)
\* primitives.dequant_normal(coeff, m_resiDctCoeff, numCoeff, scale, shift)
dequant_normal(quantCoef, scale, shift) ==
    Array([i \in DOMAIN quantCoef |->
        Clip3(COEF_MIN, COEF_MAX, Shr(quantCoef[i] * scale + Pow2(shift - 1), shift))])

\* primitives.dequant_scaling(coeff, dequantCoef, m_resiDctCoeff, numCoeff, per, shift)
dequant_scaling(quantCoef, deQuantCoef, per, shift) ==
    LET sh == shift + 4
    IN  Array([i \in DOMAIN quantCoef |->
           IF sh > per
           THEN Clip3(COEF_MIN, COEF_MAX,
                      Shr(quantCoef[i] * deQuantCoef[i] + Pow2(sh - per - 1), sh - per))
           ELSE Clip3(COEF_MIN, COEF_MAX,
                      Shl(Clip3(COEF_MIN, COEF_MAX, quantCoef[i] * deQuantCoef[i]), per - sh))])

\* primitives.cvt32to16_shr(residual, m_resiDctCoeff, stride, shift, trSize)
cvt32to16_shr(src, shift) ==
    Array([i \in DOMAIN src |-> ToInt16(Shr(src[i] + Pow2(shift - 1), shift))])

\* primitives.cvt32to16_shl[log2TrSize - 2](residual, m_resiDctCoeff, stride, shift)
cvt32to16_shl(src, shift) == Array([i \in DOMAIN src |-> ToInt16(Shl(src[i], shift))])

\* lines 423-440: the dequantized coefficients
Dequant(levels, e, c) ==
    LET transformShift == TransformShift(e.depth, c.log2TrSize)
        shift == QUANT_IQUANT_SHIFT - QUANT_SHIFT - transformShift
    IN  IF e.scalingEnabled
        THEN dequant_scaling(levels,
                             m_dequantCoef(TRUE, c.log2TrSize, RdoListType(c.isIntra, c.ttype), Rem(e, c)),
                             Per(e, c), shift)
        ELSE dequant_normal(levels, Shl(s_invQuantScales[Rem(e, c) + 1], Per(e, c)), shift)

\* line 464
IsDcOnly(levels, n, c) ==
    n = 1 /\ levels[0] # 0 /\ ~(c.log2TrSize = 2 /\ c.ttype = TEXT_LUMA /\ c.isIntra)

\* DcVal with the second shift of a bit depth of 8, whatever the bit depth
DcValDepth8(dc, depth) ==
    Shr(Shr(dc * 64 + Pow2(6), 7) * 64 + Pow2(11), 12)

\* lines 466-471
DcVal(dc, depth) ==
    LET shift_2nd == 12 - (depth - 8)
    IN  Shr(Shr(dc * 64 + Pow2(6), 7) * 64 + Pow2(shift_2nd - 1), shift_2nd)

\* primitives.blockfill_s[sizeIdx](residual, stride, val)
blockfill_s(log2TrSize, val) == Array([i \in Positions(log2TrSize) |-> val])

\* InvBypass that reads the levels with row and column exchanged
InvBypassTransposed(levels, trSize) ==
    Array([i \in DOMAIN levels |-> ToInt16(levels[(i % trSize) * trSize + (i \div trSize)])])

\* lines 416-419: sample (k, j) of the block is level k * trSize + j
InvBypass(levels, trSize) ==
    Array([i \in DOMAIN levels |-> ToInt16(levels[(i \div trSize) * trSize + (i % trSize)])])

\* lines 411-479: the block written to residual, the scratch buffer, and
\* whether the DC-only path was taken
invtransformNxN(levels, n, dctBefore, e, c) ==
    IF c.bypass
    THEN [block |-> InvBypass(levels, Pow2(c.log2TrSize)), resiDct |-> dctBefore, dc |-> FALSE]
    ELSE LET dq == Dequant(levels, e, c)
             transformShift == TransformShift(e.depth, c.log2TrSize)
             useDST == c.log2TrSize = 2 /\ c.ttype = TEXT_LUMA /\ c.isIntra
         IN  IF c.useTransformSkip
             THEN [block |-> IF e.depth <= 10 \/ transformShift >= 0
                             THEN cvt32to16_shr(dq, transformShift)
                             ELSE cvt32to16_shl(dq, -transformShift),
                   resiDct |-> dq, dc |-> FALSE]
             ELSE IF IsDcOnly(levels, n, c)
             THEN [block |-> blockfill_s(c.log2TrSize, ToInt16(DcVal(dq[0], e.depth))),
                   resiDct |-> dq, dc |-> TRUE]
             ELSE [block |-> idct(dq, c.log2TrSize, useDST, e.depth), resiDct |-> dq, dc |-> FALSE]


(***************************************************************************)
(* Quant::init, Quant::setQPforQuant and the slice: the environment of a   *)
(* call                                                                    *)
(***************************************************************************)
g_chromaScale ==
    <<0, 1, 2, 3, 4, 5, 6, 7, 8, 9, 10, 11, 12, 13, 14, 15, 16, 17, 18, 19, 20, 21, 22, 23, 24,
      25, 26, 27, 28, 29, 29, 30, 31, 32, 33, 33, 34, 34, 35, 35, 36, 36, 37, 37, 38, 39, 40,
      41, 42, 43, 44, 45, 46, 47, 48, 49, 50, 51>>

QP_BD_OFFSET(depth) == 6 * (depth - 8)

\* QpParam::setQpParam(qpScaled)
setQpParam(qpScaled) == [qp |-> qpScaled, per |-> qpScaled \div 6, rem |-> qpScaled % 6]

\* ChromaQp without line 211: outside 4:2:0 the clipped sum is used as it is
ChromaQpUncapped(qpy, chromaQPOffset, is420, depth) ==
    LET qp == Clip3(-QP_BD_OFFSET(depth), 57, qpy + chromaQPOffset)
    IN  IF qp >= 30 /\ is420 THEN g_chromaScale[qp + 1] ELSE qp

\* setQPforQuant(qpy, ttype, chromaQPOffset, chFmt), lines 201-214
ChromaQp(qpy, chromaQPOffset, is420, depth) ==
    LET qp == Clip3(-QP_BD_OFFSET(depth), 57, qpy + chromaQPOffset)
    IN  IF qp >= 30
        THEN (IF is420 THEN g_chromaScale[qp + 1] ELSE Min2(qp, 51))
        ELSE qp

\* setQPforQuant(cu), lines 192-199
setQPforQuant(qpy, cbOffset, crOffset, is420, depth) ==
    Array([t \in {TEXT_LUMA, TEXT_CHROMA_U, TEXT_CHROMA_V} |->
        IF t = TEXT_LUMA THEN setQpParam(qpy + QP_BD_OFFSET(depth))
        ELSE setQpParam(ChromaQp(qpy, IF t = TEXT_CHROMA_U THEN cbOffset ELSE crOffset, is420, depth)
                        + QP_BD_OFFSET(depth))])

\* The environments tried, one per index.  Each row fixes the bit depth, how
\* Quant::init was called, the slice and picture parameters, the luma QP, the
\* lambdas and the cost tables.  The luma QP ranges from -QP_BD_OFFSET as in
\* the clipping of the chroma QP.
EnvDepth    == <<8, 8, 12, 8, 8, 8, 12, 8, 8>>
EnvRDOQ     == <<FALSE, FALSE, FALSE, TRUE, TRUE, TRUE, TRUE, TRUE, FALSE>>
EnvPsy      == <<0, 0, 0, 0, 256, 0, 0, 512, 0>>
EnvScaling  == <<FALSE, TRUE, FALSE, FALSE, FALSE, TRUE, FALSE, FALSE, FALSE>>
EnvSignHide == <<TRUE, FALSE, TRUE, TRUE, TRUE, FALSE, TRUE, TRUE, TRUE>>
EnvSliceI   == <<TRUE, FALSE, FALSE, FALSE, TRUE, FALSE, FALSE, FALSE, FALSE>>
EnvQpy      == <<2, 22, -24, 2, 10, 22, -24, 30, 22>>
EnvCbOffset == <<0, 3, 0, -2, 0, 4, 0, 6, 0>>
EnvLambda   == <<16, 16, 16, 2, 9, 137, 64, 870, 16>>
EnvEst      == <<0, 0, 0, 0, 1, 2, 0, 1, 0>>

EnvOf(k) ==
    LET r == 1 + (k % Len(EnvDepth))
        depth == EnvDepth[r]
    IN  [depth            |-> depth,
         m_useRDOQ        |-> EnvRDOQ[r],
         m_psyRdoqScale   |-> EnvPsy[r],
         scalingEnabled   |-> EnvScaling[r],
         bSignHideEnabled |-> EnvSignHide[r],
         sliceI           |-> EnvSliceI[r],
         m_qpParam        |-> setQPforQuant(EnvQpy[r], EnvCbOffset[r], -EnvCbOffset[r], TRUE, depth),
         m_lambdas        |-> Array([t \in {TEXT_LUMA, TEXT_CHROMA_U, TEXT_CHROMA_V} |->
                                  EnvLambda[r] + (k \div Len(EnvDepth)) + 3 * t]),
         est              |-> EnvEst[r],
         bNoiseReduction  |-> FALSE,
         offsetDenoise    |-> Array([cat \in 0 .. 7 |-> [i \in Positions(3) |-> 0]])]

(***************************************************************************)
(* The state machine: one transform unit is quantized by transformNxN and  *)
(* reconstructed by invtransformNxN with the same arguments.               *)
(***************************************************************************)
Log2Sizes == {2, 3}

TextTypes == {TEXT_LUMA, TEXT_CHROMA_U, TEXT_CHROMA_V}

Strides(trSize) == {trSize, trSize + 3}

\* the calls tried: transform skip on 4x4 blocks only, the horizontal and
\* vertical scans on intra blocks only; the bypass, which looks at nothing but
\* the size and the stride, on inter luma blocks; a stride wider than the block
\* on inter luma blocks
Calls ==
    {c \in [log2TrSize : Log2Sizes, ttype : TextTypes, isIntra : BOOLEAN, bypass : BOOLEAN,
            useTransformSkip : BOOLEAN, scanType : {SCAN_DIAG, SCAN_HOR, SCAN_VER},
            stride : {4, 7, 8, 11}, trIdx : {0, 1}] :
        /\ c.stride \in Strides(Pow2(c.log2TrSize))
        /\ c.useTransformSkip => c.log2TrSize = 2 /\ ~c.bypass /\ c.scanType = SCAN_DIAG
        /\ c.scanType # SCAN_DIAG => c.isIntra /\ c.ttype # TEXT_CHROMA_V
        /\ c.bypass => c.ttype = TEXT_LUMA /\ ~c.isIntra
        /\ c.stride # Pow2(c.log2TrSize) => c.ttype = TEXT_LUMA /\ ~c.isIntra
        /\ c.trIdx = (IF c.log2TrSize = 2 THEN 1 ELSE 0)}

Init ==
    /\ env \in {EnvOf(k) : k \in 0 .. (NumEnvs - 1)}
    /\ m_nr = [residualSum |-> Array([cat \in 0 .. 7 |-> [i \in Positions(3) |-> 0]]),
               count |-> Array([cat \in 0 .. 7 |-> 0])]
    /\ call = [log2TrSize |-> 2, ttype |-> TEXT_LUMA, isIntra |-> FALSE, bypass |-> FALSE,
               useTransformSkip |-> FALSE, scanType |-> SCAN_DIAG, stride |-> 4, trIdx |-> 1]
    /\ residual = <<>>
    /\ m_resiDctCoeff = <<>>
    /\ m_fencDctCoeff = <<>>
    /\ coeff = <<>>
    /\ numSig = 0
    /\ loc = [path |-> "none"]
    /\ recon = [residual |-> <<>>, dc |-> FALSE]
    /\ srcPix = <<>>
    /\ dst = <<>>
    /\ pc = "init"

TransformNxN ==
    /\ pc = "init"
    /\ \E c \in Calls, base \in Bases(env.depth), seed \in 0 .. (NumSeeds - 1) :
         \E resi \in {BufferOf(ResidualBlock(base, seed, c.log2TrSize), Pow2(c.log2TrSize), c.stride)} :
           \E r \in {transformNxN(resi, m_resiDctCoeff, m_nr, env, c)} :
              /\ call' = c
              /\ residual' = resi
              /\ m_resiDctCoeff' = r.resiDct
              /\ m_fencDctCoeff' = FencDctAfter(resi, m_fencDctCoeff, env, c)
              /\ m_nr' = r.nr
              /\ coeff' = r.coeff
              /\ numSig' = r.numSig
              /\ loc' = r.loc
    /\ pc' = "transformed"
    /\ UNCHANGED <<env, recon, srcPix, dst>>

InvTransformNxN ==
    /\ pc = "transformed"
    /\ \E r \in {invtransformNxN(coeff, numSig, m_resiDctCoeff, env, call)} :
           /\ recon' = [residual |-> BufferOf(r.block, Pow2(call.log2TrSize), call.stride),
                        dc |-> r.dc]
           /\ m_resiDctCoeff' = r.resiDct
    /\ pc' = "inverted"
    /\ UNCHANGED <<env, m_nr, call, residual, m_fencDctCoeff, coeff, numSig, loc, srcPix, dst>>

Next == TransformNxN \/ InvTransformNxN

Spec == Init /\ [][Next]_vars


(***************************************************************************)
(* The scalar quantizer alone: two coefficients of m_resiDctCoeff are      *)
(* quantized by primitives.quant with the parameters transformNxN derives  *)
(* for a call (lines 389-398), the same quantCoeff for both.               *)
(***************************************************************************)
\* coefficients tried: none, small, and the ones the clamp of the levels cuts
CoefVals == {0, 1, -1, 300, -300, 20480, -20480, 32704, -32704}

QuantInit ==
    /\ env \in {EnvOf(k) : k \in {j \in 0 .. (NumEnvs - 1) : ~EnvOf(j).m_useRDOQ}}
    /\ m_nr = [residualSum |-> Array([cat \in 0 .. 7 |-> [i \in Positions(3) |-> 0]]),
               count |-> Array([cat \in 0 .. 7 |-> 0])]
    /\ call = [log2TrSize |-> 2, ttype |-> TEXT_LUMA, isIntra |-> FALSE, bypass |-> FALSE,
               useTransformSkip |-> FALSE, scanType |-> SCAN_DIAG, stride |-> 4, trIdx |-> 1]
    /\ residual = <<>>
    /\ m_resiDctCoeff \in [0 .. 1 -> CoefVals]
    /\ m_fencDctCoeff = <<>>
    /\ coeff = <<>>
    /\ numSig = 0
    /\ loc = [path |-> "none"]
    /\ recon = [residual |-> <<>>, dc |-> FALSE]
    /\ srcPix = <<>>
    /\ dst = <<>>
    /\ pc = "coefficients"

QuantPair ==
    /\ pc = "coefficients"
    /\ \E c \in {d \in Calls : ~d.bypass} :
         \E q \in {quant(m_resiDctCoeff,
                         Array([i \in 0 .. 1 |->
                             m_quantCoef(env.scalingEnabled, c.log2TrSize, ScalarListType(c.ttype),
                                         Rem(env, c))[0]]),
                         Qbits(env, c), ScalarAdd(env, c))} :
            /\ call' = c
            /\ coeff' = q.coeff
            /\ numSig' = q.numSig
            /\ loc' = [path |-> "quant", sbh |-> FALSE, pre |-> q.coeff, oob |-> FALSE]
    /\ pc' = "quantized"
    /\ UNCHANGED <<env, m_nr, residual, m_resiDctCoeff, m_fencDctCoeff, recon, srcPix, dst>>

QuantNext == QuantPair

QuantSpec == QuantInit /\ [][QuantNext]_vars

(***************************************************************************)
(* Transform skip alone: transformNxN on 4x4 blocks with useTransformSkip, *)
(* where m_resiDctCoeff is the residual shifted, so that the residual      *)
(* fixes the coefficients the quantizer and the sign-bit hiding see.       *)
(***************************************************************************)
\* residual samples at raster positions 0, 4, 12 and 3 (scan positions 0, 1, 6
\* and 9 of the diagonal scan), zero elsewhere
SkipBlock(a, b, d, e) ==
    Array([i \in Positions(2) |->
        IF i = 0 THEN a ELSE IF i = 4 THEN b ELSE IF i = 12 THEN d ELSE IF i = 3 THEN e ELSE 0])

SkipBlocks ==
    {SkipBlock(a, b, d, e) : a \in {0, 6, -6}, b \in {7, -7, 2, 12},
                             d \in {0, 8, -17}, e \in {0, 8, -8}}

\* every row of the environment table
SkipInit ==
    /\ env \in {EnvOf(k) : k \in 0 .. (Len(EnvDepth) - 1)}
    /\ m_nr = [residualSum |-> Array([cat \in 0 .. 7 |-> [i \in Positions(3) |-> 0]]),
               count |-> Array([cat \in 0 .. 7 |-> 0])]
    /\ call = [log2TrSize |-> 2, ttype |-> TEXT_LUMA, isIntra |-> FALSE, bypass |-> FALSE,
               useTransformSkip |-> TRUE, scanType |-> SCAN_DIAG, stride |-> 4, trIdx |-> 1]
    /\ residual = <<>>
    /\ m_resiDctCoeff = <<>>
    /\ m_fencDctCoeff = <<>>
    /\ coeff = <<>>
    /\ numSig = 0
    /\ loc = [path |-> "none"]
    /\ recon = [residual |-> <<>>, dc |-> FALSE]
    /\ srcPix = <<>>
    /\ dst = <<>>
    /\ pc = "init"

TransformSkipNxN ==
    /\ pc = "init"
    /\ \E c \in {d \in Calls : d.useTransformSkip}, blk \in SkipBlocks :
         \E resi \in {BufferOf(blk, Pow2(c.log2TrSize), c.stride)} :
           \E r \in {transformNxN(resi, m_resiDctCoeff, m_nr, env, c)} :
              /\ call' = c
              /\ residual' = resi
              /\ m_resiDctCoeff' = r.resiDct
              /\ m_fencDctCoeff' = FencDctAfter(resi, m_fencDctCoeff, env, c)
              /\ m_nr' = r.nr
              /\ coeff' = r.coeff
              /\ numSig' = r.numSig
              /\ loc' = r.loc
    /\ pc' = "transformed"
    /\ UNCHANGED <<env, recon, srcPix, dst>>

SkipNext == TransformSkipNxN

SkipSpec == SkipInit /\ [][SkipNext]_vars

(***************************************************************************)
(* Construction and set-up of the Quant object: Quant::Quant, Quant::init  *)
(* and one call of setQPforQuant(qpy, ttype, chromaQPOffset, chFmt).  env  *)
(* holds the fields these write; a pointer is "NULL" or names its buffer.  *)
(***************************************************************************)
X265_CSP_I420 == 1

\* 4:2:0, 4:2:2 and 4:4:4
ChromaFormats == X265_CSP_I420 .. (X265_CSP_I420 + 2)

\* psyScale in units of 1/512
PsyScales == {0, 1, 512, 1023}

\* PPS chroma QP offsets
ChromaQpOffsets == {-12, -5, -1, 0, 1, 5, 12}

\* line 182 with the second operand dropped
InitReturnCoeffOnly(m_resiDctCoeffPtr, m_fencShortBuf) == m_resiDctCoeffPtr # "NULL"

\* line 182: return m_resiDctCoeff && m_fencShortBuf
InitReturn(m_resiDctCoeffPtr, m_fencShortBuf) ==
    m_resiDctCoeffPtr # "NULL" /\ m_fencShortBuf # "NULL"

\* Quant::Quant, lines 166-171; QP_BD_OFFSET is fixed by the build
SetupInit ==
    /\ env \in {[depth |-> d, m_useRDOQ |-> FALSE, m_psyRdoqScale |-> Uninit,
                 m_resiDctCoeff |-> "NULL", m_fencDctCoeff |-> "NULL", m_fencShortBuf |-> "NULL",
                 m_qpParam |-> Array([t \in TextTypes |-> setQpParam(0)])] : d \in {8, 12}}
    /\ m_nr = [residualSum |-> Array([cat \in 0 .. 7 |-> [i \in Positions(3) |-> 0]]),
               count |-> Array([cat \in 0 .. 7 |-> 0])]
    /\ call = [qpy |-> 0, ttype |-> TEXT_CHROMA_U, chromaQPOffset |-> 0, chFmt |-> X265_CSP_I420]
    /\ residual = <<>>
    /\ m_resiDctCoeff = <<>>
    /\ m_fencDctCoeff = <<>>
    /\ coeff = <<>>
    /\ numSig = 0
    /\ loc = [path |-> "none"]
    /\ recon = [residual |-> <<>>, dc |-> FALSE]
    /\ srcPix = <<>>
    /\ dst = <<>>
    /\ pc = "constructed"

\* Quant::init, lines 173-183; each X265_MALLOC returns a buffer or NULL
InitCall ==
    /\ pc = "constructed"
    /\ \E useRDOQ \in BOOLEAN, psyScale \in PsyScales,
          resi \in {"NULL", "coeffBuf"}, short \in {"NULL", "shortBuf"} :
         /\ env' = [env EXCEPT !.m_useRDOQ = useRDOQ,
                               !.m_psyRdoqScale = psyScale \div 2,
                               !.m_resiDctCoeff = resi,
                               !.m_fencDctCoeff = IF resi = "NULL" THEN "NULL+1024" ELSE "coeffBuf+1024",
                               !.m_fencShortBuf = short]
         /\ loc' = [path |-> "init", ret |-> InitReturn(resi, short)]
    /\ pc' = "initialized"
    /\ UNCHANGED <<m_nr, call, residual, m_resiDctCoeff, m_fencDctCoeff, coeff, numSig, recon, srcPix, dst>>

\* setQPforQuant(qpy, ttype, chromaQPOffset, chFmt), lines 201-214, on an
\* object whose init succeeded
SetChromaQP ==
    /\ pc = "initialized"
    /\ loc.ret
    /\ \E qpy \in (-QP_BD_OFFSET(env.depth)) .. 51, ttype \in {TEXT_CHROMA_U, TEXT_CHROMA_V},
          chromaQPOffset \in ChromaQpOffsets, chFmt \in ChromaFormats :
         /\ call' = [qpy |-> qpy, ttype |-> ttype, chromaQPOffset |-> chromaQPOffset, chFmt |-> chFmt]
         /\ env' = [env EXCEPT !.m_qpParam[ttype] =
                        setQpParam(ChromaQp(qpy, chromaQPOffset, chFmt = X265_CSP_I420, env.depth)
                                   + QP_BD_OFFSET(env.depth))]
    /\ pc' = "qpset"
    /\ UNCHANGED <<m_nr, residual, m_resiDctCoeff, m_fencDctCoeff, coeff, numSig, loc, recon, srcPix, dst>>

SetupNext == InitCall \/ SetChromaQP

SetupSpec == SetupInit /\ [][SetupNext]_vars

(***************************************************************************)
(* Intra prediction (intrapred.cpp).  The reference array srcPix of a      *)
(* block of side width is a function on 0 .. 4*width: the top-left sample, *)
(* 2*width top samples, 2*width left samples.  The block written is a      *)
(* function on 0 .. width*width-1, sample (x, y) at y*width + x            *)
(* (dstStride = width).                                                    *)
(***************************************************************************)
HOR_IDX == 10
VER_IDX == 26

\* x265_clip: clamp to the range of a pixel
x265_clip(x, depth) == Clip3(0, Pow2(depth) - 1, x)

\* the cast (pixel): uint8_t at 8 bits, uint16_t above
ToPixel(x, depth) == x % (IF depth = 8 THEN 256 ELSE 65536)

BlockDomain(width) == 0 .. (width * width - 1)

\* lines 51-53: the sum of the width top and the width left samples next to
\* the block
RECURSIVE DcSum(_, _, _)
DcSum(width, src, i) ==
    IF i >= width THEN 0
    ELSE src[1 + i] + src[2 * width + 1 + i] + DcSum(width, src, i + 1)

\* IntraDcVal with dcVal starting at 0 instead of width (line 51)
IntraDcValTruncated(width, src) == DcSum(width, src, 0) \div (width + width)

\* lines 51-55
IntraDcVal(width, src) == (width + DcSum(width, src, 0)) \div (width + width)

\* dcPredFilter(srcPix + 1, srcPix + (2*width + 1), dst, dstStride, width),
\* lines 30-44
dcPredFilter(src, blk, size, depth) ==
    Array([i \in BlockDomain(size) |->
        IF i = 0
        THEN ToPixel(Shr(src[1] + src[2 * size + 1] + 2 * blk[0] + 2, 2), depth)
        ELSE IF i < size
        THEN ToPixel(Shr(src[1 + i] + 3 * blk[i] + 2, 2), depth)
        ELSE IF i % size = 0
        THEN ToPixel(Shr(src[2 * size + 1 + (i \div size)] + 3 * blk[i] + 2, 2), depth)
        ELSE blk[i]])

\* lines 56-58
DcFill(width, dcVal, depth) == Array([i \in BlockDomain(width) |-> ToPixel(dcVal, depth)])

\* intra_pred_dc_c_new<width>, lines 46-63
intra_pred_dc_c_new(width, src, bFilter, depth) ==
    IF bFilter
    THEN dcPredFilter(src, DcFill(width, IntraDcVal(width, src), depth), width, depth)
    ELSE DcFill(width, IntraDcVal(width, src), depth)

\* PlanarSample with the weight of topRight one short
PlanarSampleShortWeight(log2Size, src, x, y) ==
    LET blkSize == Pow2(log2Size)
    IN  Shr((blkSize - 1 - x) * src[2 * blkSize + 1 + y] + (blkSize - 1 - y) * src[1 + x]
            + x * src[1 + blkSize] + (y + 1) * src[2 * blkSize + 1 + blkSize] + blkSize,
            log2Size + 1)

\* line 76: above = srcPix + 1, left = srcPix + (2*blkSize + 1),
\* topRight = above[blkSize], bottomLeft = left[blkSize]
PlanarSample(log2Size, src, x, y) ==
    LET blkSize == Pow2(log2Size)
    IN  Shr((blkSize - 1 - x) * src[2 * blkSize + 1 + y] + (blkSize - 1 - y) * src[1 + x]
            + (x + 1) * src[1 + blkSize] + (y + 1) * src[2 * blkSize + 1 + blkSize] + blkSize,
            log2Size + 1)

\* planar_pred_c_new<log2Size>, lines 65-78
planar_pred_c_new(log2Size, src, depth) ==
    Array([i \in BlockDomain(Pow2(log2Size)) |->
        ToPixel(PlanarSample(log2Size, src, i % Pow2(log2Size), i \div Pow2(log2Size)), depth)])

\* neighbourBuf without the exchange of lines 196-197
UnswappedBuf(width, src) == src

\* lines 189-200: the reference array with its top and left halves swapped
neighbourBuf(width, src) ==
    Array([i \in 0 .. (4 * width) |->
        IF i = 0 THEN src[0]
        ELSE IF i <= 2 * width THEN src[2 * width + i]
        ELSE src[i - 2 * width]])

angleTable == <<-32, -26, -21, -17, -13, -9, -5, -2, 0, 2, 5, 9, 13, 17, 21, 26, 32>>

invAngleTable == <<4096, 1638, 910, 630, 482, 390, 315, 256>>

\* AngVertical with the edge filter applied whatever bFilter is
AngVerticalFiltered(width, src, bFilter, depth, x, y) ==
    IF x = 0
    THEN x265_clip(ToInt16(src[1] + Shr(src[2 * width + 1 + y] - src[0], 1)), depth)
    ELSE src[1 + x]

\* lines 211-224: sample (x, y) of the vertical prediction
AngVertical(width, src, bFilter, depth, x, y) ==
    IF bFilter /\ x = 0
    THEN x265_clip(ToInt16(src[1] + Shr(src[2 * width + 1 + y] - src[0], 1)), depth)
    ELSE src[1 + x]

\* lines 228-250: ref[j]; for a negative angle ref points into refBuf[64], of
\* which the projected left samples and width + 1 top samples are written
AngRef(width, src, angle, angleOffset, j) ==
    IF angle < 0
    THEN IF j <= -2
         THEN IF j >= Shr(width * angle, 5)
              THEN src[2 * width + Shr(128 + (-1 - j) * invAngleTable[-angleOffset], 8)]
              ELSE Uninit
         ELSE IF j <= width - 1 THEN src[j + 1] ELSE Uninit
    ELSE src[1 + j]

\* lines 252-266: sample (x, y) of the angular prediction before the flip
AngSample(width, src, angle, angleOffset, depth, x, y) ==
    LET angleSum == (y + 1) * angle
        offset   == Shr(angleSum, 5)
        fraction == angleSum % 32
    IN  IF fraction # 0
        THEN ToPixel(Shr((32 - fraction) * AngRef(width, src, angle, angleOffset, offset + x)
                         + fraction * AngRef(width, src, angle, angleOffset, offset + x + 1) + 16, 5),
                     depth)
        ELSE AngRef(width, src, angle, angleOffset, offset + x)

\* lines 203-282 on the reference array src chosen in lines 189-200; the flip
\* of lines 270-282 exchanges samples (x, y) and (y, x)
AngBlock(width, src, horMode, angleOffset, angle, bFilter, depth) ==
    Array([i \in BlockDomain(width) |->
        LET x == IF horMode THEN i \div width ELSE i % width
            y == IF horMode THEN i % width ELSE i \div width
        IN  IF angle = 0
            THEN AngVertical(width, src, bFilter, depth, x, y)
            ELSE AngSample(width, src, angle, angleOffset, depth, x, y)])

\* intra_pred_ang_c_new<width>, lines 184-283
intra_pred_ang_c_new(width, src, dirMode, bFilter, depth) ==
    AngBlock(width,
             IF dirMode < 18 THEN neighbourBuf(width, src) ELSE src,
             dirMode < 18,
             IF dirMode < 18 THEN 10 - dirMode ELSE dirMode - 26,
             angleTable[9 + (IF dirMode < 18 THEN 10 - dirMode ELSE dirMode - 26)],
             bFilter, depth)

\* the buffers a caller of intra_pred_ang_c derives from the reference array:
\* refAbove[0] = refLeft[0] is the top-left sample, refAbove[1 ..] the top and
\* refLeft[1 ..] the left samples; below index 0 each buffer has room for the
\* width - 1 samples the function may project, holding PAD before the call
RefAbove(width, src) ==
    Array([k \in (1 - width) .. (2 * width) |-> IF k < 0 THEN PAD ELSE src[k]])

RefLeft(width, src) ==
    Array([k \in (1 - width) .. (2 * width) |->
        IF k < 0 THEN PAD ELSE IF k = 0 THEN src[0] ELSE src[2 * width + k]])

angTable == <<0, 2, 5, 9, 13, 17, 21, 26, 32>>

invAngTable == <<0, 4096, 1638, 910, 630, 482, 390, 315, 256>>

\* lines 85-95
IntraPredAngle(dirMode) ==
    LET a == IF dirMode < 18 THEN -(dirMode - HOR_IDX) ELSE dirMode - VER_IDX
    IN  (IF a < 0 THEN -1 ELSE 1) * angTable[Abs(a) + 1]

InvAngle(dirMode) ==
    invAngTable[Abs(IF dirMode < 18 THEN -(dirMode - HOR_IDX) ELSE dirMode - VER_IDX) + 1]

\* lines 103-121: refMain with the samples projected from refSide written
\* below index 0 (refMain[k] = refSide[invAngleSum >> 8], k = -1, -2, ...)
ExtendedRefMain(width, refMain, refSide, intraPredAngle, invAngle) ==
    Array([k \in DOMAIN refMain |->
        IF intraPredAngle < 0 /\ k < 0 /\ k > Shr(width * intraPredAngle, 5)
        THEN refSide[Shr(128 + (-k) * invAngle, 8)]
        ELSE refMain[k]])

\* lines 123-164: sample l of row k before the flip
OldAngSample(width, refMain, refSide, intraPredAngle, bFilter, depth, l, k) ==
    IF intraPredAngle = 0
    THEN IF bFilter /\ l = 0
         THEN x265_clip(ToInt16(refMain[1] + Shr(refSide[k + 1] - refSide[0], 1)), depth)
         ELSE refMain[l + 1]
    ELSE LET deltaPos   == (k + 1) * intraPredAngle
             deltaInt   == Shr(deltaPos, 5)
             deltaFract == deltaPos % 32
         IN  IF deltaFract # 0
             THEN ToPixel(Shr((32 - deltaFract) * refMain[l + deltaInt + 1]
                              + deltaFract * refMain[l + deltaInt + 2] + 16, 5), depth)
             ELSE refMain[l + deltaInt + 1]

\* lines 123-179 on the extended refMain; the flip of lines 168-179 exchanges
\* samples (k, l) and (l, k)
OldAngBlock(width, refMain, refSide, modeHor, intraPredAngle, bFilter, depth) ==
    Array([i \in BlockDomain(width) |->
        LET l == IF modeHor THEN i \div width ELSE i % width
            k == IF modeHor THEN i % width ELSE i \div width
        IN  OldAngSample(width, refMain, refSide, intraPredAngle, bFilter, depth, l, k)])

\* intra_pred_ang_c<width>, lines 79-182
intra_pred_ang_c(width, refLeft, refAbove, dirMode, bFilter, depth) ==
    OldAngBlock(width,
                ExtendedRefMain(width,
                                IF dirMode < 18 THEN refLeft ELSE refAbove,
                                IF dirMode < 18 THEN refAbove ELSE refLeft,
                                IntraPredAngle(dirMode), InvAngle(dirMode)),
                IF dirMode < 18 THEN refAbove ELSE refLeft,
                dirMode < 18, IntraPredAngle(dirMode), bFilter, depth)

(***************************************************************************)
(* The intra prediction calls tried                                        *)
(***************************************************************************)
NumRefs == 6

IntraWidths == {4, 8, 16, 32}

\* the bit depths tried for a block side
IntraDepths(width) == IF width = 32 THEN {8} ELSE {8, 12}

Log2Width(width) == CHOOSE n \in 2 .. 5 : Pow2(n) = width

\* sample i of pattern k: a hash of the index, a ramp, the two extremes
\* alternating, or one value next to the block and others further away
RefSample(k, i, width, maxVal) ==
    IF k % 4 = 0 THEN (i * i * (k + 3) + i * (7 * k + 5) + 13 * k + 1) % (maxVal + 1)
    ELSE IF k % 4 = 1 THEN Min2(maxVal, (k + 2) * i)
    ELSE IF k % 4 = 2 THEN (IF (i + k \div 4) % 2 = 0 THEN maxVal ELSE 0)
    ELSE IF (1 <= i /\ i <= width + 1) \/ (2 * width + 1 <= i /\ i <= 3 * width + 1)
         THEN maxVal - k
         ELSE (i * (k + 8)) % (maxVal + 1)

IntraRefs(width, depth) ==
    {Array([i \in 0 .. (4 * width) |-> v]) : v \in {0, 5, Pow2(depth - 1), Pow2(depth) - 1}}
    \cup {Array([i \in 0 .. (4 * width) |-> RefSample(k, i, width, Pow2(depth) - 1)]) :
            k \in 0 .. (NumRefs - 1)}

IntraInit ==
    /\ \E width \in IntraWidths :
        \E depth \in IntraDepths(width) :
         /\ env = [depth |-> depth]
         /\ call = [width |-> width, fn |-> "none", dirMode |-> 0, bFilter |-> FALSE]
         /\ srcPix \in IntraRefs(width, depth)
    /\ m_nr = [residualSum |-> Array([cat \in 0 .. 7 |-> [i \in Positions(3) |-> 0]]),
               count |-> Array([cat \in 0 .. 7 |-> 0])]
    /\ residual = <<>>
    /\ m_resiDctCoeff = <<>>
    /\ m_fencDctCoeff = <<>>
    /\ coeff = <<>>
    /\ numSig = 0
    /\ loc = [path |-> "none"]
    /\ recon = [residual |-> <<>>, dc |-> FALSE]
    /\ dst = <<>>
    /\ pc = "reference"

\* p.intra_pred_new[0][size](dst, dstStride, srcPix, 0, bFilter)
PlanarPred ==
    /\ pc = "reference"
    /\ \E bFilter \in BOOLEAN :
         /\ call' = [call EXCEPT !.fn = "planar_pred_c_new", !.dirMode = 0, !.bFilter = bFilter]
         /\ dst' = planar_pred_c_new(Log2Width(call.width), srcPix, env.depth)
    /\ pc' = "predicted"
    /\ UNCHANGED <<env, m_nr, residual, m_resiDctCoeff, m_fencDctCoeff, coeff, numSig, loc, recon, srcPix>>

\* p.intra_pred_new[1][size](dst, dstStride, srcPix, 1, bFilter)
DcPred ==
    /\ pc = "reference"
    /\ \E bFilter \in BOOLEAN :
         /\ call' = [call EXCEPT !.fn = "intra_pred_dc_c_new", !.dirMode = 1, !.bFilter = bFilter]
         /\ dst' = intra_pred_dc_c_new(call.width, srcPix, bFilter, env.depth)
    /\ pc' = "predicted"
    /\ UNCHANGED <<env, m_nr, residual, m_resiDctCoeff, m_fencDctCoeff, coeff, numSig, loc, recon, srcPix>>

\* p.intra_pred_new[dirMode][size](dst, dstStride, srcPix, dirMode, bFilter)
AngPredNew ==
    /\ pc = "reference"
    /\ \E dirMode \in 2 .. 34, bFilter \in BOOLEAN :
         /\ call' = [call EXCEPT !.fn = "intra_pred_ang_c_new", !.dirMode = dirMode, !.bFilter = bFilter]
         /\ dst' = intra_pred_ang_c_new(call.width, srcPix, dirMode, bFilter, env.depth)
    /\ pc' = "predicted"
    /\ UNCHANGED <<env, m_nr, residual, m_resiDctCoeff, m_fencDctCoeff, coeff, numSig, loc, recon, srcPix>>

\* p.intra_pred[dirMode][size](dst, dstStride, refLeft, refAbove, dirMode,
\* bFilter); loc keeps the caller's main reference buffer as the call left it
AngPred ==
    /\ pc = "reference"
    /\ \E dirMode \in 2 .. 34, bFilter \in BOOLEAN :
         /\ call' = [call EXCEPT !.fn = "intra_pred_ang_c", !.dirMode = dirMode, !.bFilter = bFilter]
         /\ dst' = intra_pred_ang_c(call.width, RefLeft(call.width, srcPix), RefAbove(call.width, srcPix),
                                    dirMode, bFilter, env.depth)
         /\ loc' = [path |-> "intra",
                    refMain |-> ExtendedRefMain(call.width,
                                    IF dirMode < 18 THEN RefLeft(call.width, srcPix)
                                                    ELSE RefAbove(call.width, srcPix),
                                    IF dirMode < 18 THEN RefAbove(call.width, srcPix)
                                                    ELSE RefLeft(call.width, srcPix),
                                    IntraPredAngle(dirMode), InvAngle(dirMode))]
    /\ pc' = "predicted"
    /\ UNCHANGED <<env, m_nr, residual, m_resiDctCoeff, m_fencDctCoeff, coeff, numSig, recon, srcPix>>

IntraNext == PlanarPred \/ DcPred \/ AngPredNew \/ AngPred

IntraSpec == IntraInit /\ [][IntraNext]_vars

(***************************************************************************)
(* The all-angles variant all_angs_pred_c_new.  The packed buffer dest is  *)
(* a function on 0 .. 33*size*size - 1.                                    *)
(***************************************************************************)
\* g_intraFilterFlags[mode]: bit `size` is set when blocks of that side use
\* the filtered reference for the mode: planar at 8, 16 and 32, DC never, an
\* angular mode when its distance from modes 10 and 26 is above 7 at 8, above
\* 1 at 16 and above 0 at 32
g_intraFilterFlags(mode) ==
    LET dist == Min2(Abs(mode - VER_IDX), Abs(mode - HOR_IDX))
    IN  IF mode = 0 THEN {8, 16, 32}
        ELSE IF mode = 1 THEN {}
        ELSE {b \in {8, 16, 32} : dist > (IF b = 8 THEN 7 ELSE IF b = 16 THEN 1 ELSE 0)}

\* lines 301-310: the exchange of samples (k, l) and (l, k)
Transposed(blk, size) ==
    Array([i \in BlockDomain(size) |-> blk[(i % size) * size + (i \div size)]])

\* AllAngsBlock without the transpose of lines 298-311
AllAngsBlockFlipped(size, refPix, filtPix, mode, bLuma, depth) ==
    intra_pred_ang_c_new(size, IF size \in g_intraFilterFlags(mode) THEN filtPix ELSE refPix,
                         mode, bLuma, depth)

\* lines 290-311: the block of one mode
AllAngsBlock(size, refPix, filtPix, mode, bLuma, depth) ==
    IF mode < 18
    THEN Transposed(intra_pred_ang_c_new(size,
                        IF size \in g_intraFilterFlags(mode) THEN filtPix ELSE refPix,
                        mode, bLuma, depth), size)
    ELSE intra_pred_ang_c_new(size, IF size \in g_intraFilterFlags(mode) THEN filtPix ELSE refPix,
                              mode, bLuma, depth)

\* line 291: out = dest + ((mode - 2) << (log2Size * 2))
Packed(blocks, size) ==
    Array([j \in 0 .. (33 * size * size - 1) |->
        blocks[2 + (j \div (size * size))][j % (size * size)]])

\* all_angs_pred_c_new<log2Size>, lines 285-313
all_angs_pred_c_new(log2Size, refPix, filtPix, bLuma, depth) ==
    Packed(Array([mode \in 2 .. 34 |->
               AllAngsBlock(Pow2(log2Size), refPix, filtPix, mode, bLuma, depth)]),
           Pow2(log2Size))

\* the reference arrays tried: every pattern as refPix, the next one as filtPix
AllAngsInit ==
    /\ \E width \in IntraWidths :
        \E depth \in IntraDepths(width), k \in 0 .. (NumRefs - 1) :
         \E f \in {(k + 1) % NumRefs} :
         /\ env = [depth |-> depth]
         /\ srcPix = Array([i \in 0 .. (4 * width) |-> RefSample(k, i, width, Pow2(depth) - 1)])
         /\ call = [width |-> width, fn |-> "none", bLuma |-> FALSE,
                    filtPix |-> Array([i \in 0 .. (4 * width) |->
                                          RefSample(f, i, width, Pow2(depth) - 1)])]
    /\ m_nr = [residualSum |-> Array([cat \in 0 .. 7 |-> [i \in Positions(3) |-> 0]]),
               count |-> Array([cat \in 0 .. 7 |-> 0])]
    /\ residual = <<>>
    /\ m_resiDctCoeff = <<>>
    /\ m_fencDctCoeff = <<>>
    /\ coeff = <<>>
    /\ numSig = 0
    /\ loc = [path |-> "none"]
    /\ recon = [residual |-> <<>>, dc |-> FALSE]
    /\ dst = <<>>
    /\ pc = "reference"

\* p.intra_pred_allangs_new[size](dest, refPix, filtPix, bLuma)
AllAngsPred ==
    /\ pc = "reference"
    /\ \E bLuma \in BOOLEAN :
         /\ call' = [call EXCEPT !.fn = "all_angs_pred_c_new", !.bLuma = bLuma]
         /\ dst' = all_angs_pred_c_new(Log2Width(call.width), srcPix, call.filtPix, bLuma, env.depth)
    /\ pc' = "predicted"
    /\ UNCHANGED <<env, m_nr, residual, m_resiDctCoeff, m_fencDctCoeff, coeff, numSig, loc, recon, srcPix>>

AllAngsNext == AllAngsPred

AllAngsSpec == AllAngsInit /\ [][AllAngsNext]_vars

(***************************************************************************)
(* The context helpers alone: calcPatternSigCtx and getSigCoeffGroupCtxInc *)
(* on a significance bitmap and a group position of a grid of side 1, 2, 4 *)
(* or 8.                                                                   *)
(***************************************************************************)
\* bitmaps around group (cgPosX, cgPosY): every choice of the group's own bit,
\* the two bits after it, its lower neighbour's bit and the one before that,
\* bit 0 and bit 63; and the full bitmap
CtxBitmaps(cgPosX, cgPosY, log2TrSizeCG) ==
    LET own == Shl(cgPosY, log2TrSizeCG) + cgPosX
    IN  {b \cap (0 .. 63) :
            b \in SUBSET {own, own + 1, own + 2, own + Pow2(log2TrSizeCG) - 1,
                          own + Pow2(log2TrSizeCG), 0, 63}}
        \cup {0 .. 63}

CtxInit ==
    /\ \E log2TrSizeCG \in 0 .. 3 :
         \E cgPosX \in 0 .. (Pow2(log2TrSizeCG) - 1), cgPosY \in 0 .. (Pow2(log2TrSizeCG) - 1) :
           \E flag64 \in CtxBitmaps(cgPosX, cgPosY, log2TrSizeCG) :
              call = [sigCoeffGroupFlag64 |-> flag64, cgPosX |-> cgPosX, cgPosY |-> cgPosY,
                      log2TrSizeCG |-> log2TrSizeCG]
    /\ env = [depth |-> 8]
    /\ m_nr = [residualSum |-> Array([cat \in 0 .. 7 |-> [i \in Positions(3) |-> 0]]),
               count |-> Array([cat \in 0 .. 7 |-> 0])]
    /\ residual = <<>>
    /\ m_resiDctCoeff = <<>>
    /\ m_fencDctCoeff = <<>>
    /\ coeff = <<>>
    /\ numSig = 0
    /\ loc = [path |-> "none"]
    /\ recon = [residual |-> <<>>, dc |-> FALSE]
    /\ srcPix = <<>>
    /\ dst = <<>>
    /\ pc = "bitmap"

\* what a shift of the bitmap by 64 may give: nothing, the bitmap itself (the
\* count taken modulo 64) or any other word, here all ones
Oversized(flag64) == {{}, flag64, 0 .. 63}

CalcPatternSigCtx ==
    /\ pc = "bitmap"
    /\ \E oversized \in Oversized(call.sigCoeffGroupFlag64) :
         loc' = [path |-> "calcPatternSigCtx",
                 ret |-> calcPatternSigCtx(call.sigCoeffGroupFlag64, call.cgPosX, call.cgPosY,
                                           call.log2TrSizeCG, oversized)]
    /\ pc' = "returned"
    /\ UNCHANGED <<env, m_nr, call, residual, m_resiDctCoeff, m_fencDctCoeff, coeff, numSig, recon, srcPix, dst>>

GetSigCoeffGroupCtxInc ==
    /\ pc = "bitmap"
    /\ \E oversized \in Oversized(call.sigCoeffGroupFlag64) :
         loc' = [path |-> "getSigCoeffGroupCtxInc",
                 ret |-> getSigCoeffGroupCtxInc(call.sigCoeffGroupFlag64, call.cgPosX, call.cgPosY,
                                                call.log2TrSizeCG, oversized)]
    /\ pc' = "returned"
    /\ UNCHANGED <<env, m_nr, call, residual, m_resiDctCoeff, m_fencDctCoeff, coeff, numSig, recon, srcPix, dst>>

CtxNext == CalcPatternSigCtx \/ GetSigCoeffGroupCtxInc

CtxSpec == CtxInit /\ [][CtxNext]_vars

(***************************************************************************)
(* Noise reduction: a sequence of transformNxN calls on one Quant object   *)
(* whose NoiseReduction has offsets, the sums and counts carried from call *)
(* to call.                                                                *)
(***************************************************************************)
\* number of denoised calls of a sequence
MaxNrCalls == 2

\* offsetDenoise[cat][i]: nothing at DC, a few levels elsewhere
NrOffset(cat, i) == IF i = 0 THEN 0 ELSE 1 + ((3 * i + 5 * cat) % 7) * 3

\* a scalar environment with noise reduction and the same one without
NrEnvs ==
    {[EnvOf(8) EXCEPT !.bNoiseReduction = b,
                      !.offsetDenoise = Array([cat \in 0 .. 7 |-> [i \in Positions(3) |-> NrOffset(cat, i)]])] :
        b \in BOOLEAN}

\* the calls of a sequence: diagonal scan, luma and Cb, packed blocks
NrCalls ==
    {c \in Calls : c.scanType = SCAN_DIAG /\ c.ttype # TEXT_CHROMA_V /\ c.stride = Pow2(c.log2TrSize)}

\* line 328, line 341 and line 374: the calls that reach denoiseDct
Denoised(e, c) == e.bNoiseReduction /\ ~c.isIntra /\ ~c.useTransformSkip /\ ~c.bypass

\* line 377
NrCat(c) == (c.log2TrSize - 2) + 4 * (IF c.ttype = TEXT_LUMA THEN 0 ELSE 1)

\* the residuals of a call: two blocks for the inter luma 4x4 transform, one elsewhere
NrSeeds(c) ==
    IF c.isIntra \/ c.useTransformSkip \/ c.bypass \/ c.log2TrSize # 2 \/ c.ttype # TEXT_LUMA
    THEN {1} ELSE {1, 2}

NrCallsDone == LET n[cat \in -1 .. 7] == IF cat < 0 THEN 0 ELSE n[cat - 1] + m_nr.count[cat] IN n[7]

NrInit ==
    /\ env \in NrEnvs
    /\ m_nr = [residualSum |-> Array([cat \in 0 .. 7 |-> [i \in Positions(3) |-> 0]]),
               count |-> Array([cat \in 0 .. 7 |-> 0])]
    /\ call = [log2TrSize |-> 2, ttype |-> TEXT_LUMA, isIntra |-> FALSE, bypass |-> FALSE,
               useTransformSkip |-> FALSE, scanType |-> SCAN_DIAG, stride |-> 4, trIdx |-> 1]
    /\ residual = <<>>
    /\ m_resiDctCoeff = <<>>
    /\ m_fencDctCoeff = <<>>
    /\ coeff = <<>>
    /\ numSig = 0
    /\ loc = [path |-> "none"]
    /\ recon = [residual |-> <<>>, dc |-> FALSE]
    /\ srcPix = <<>>
    /\ dst = <<>>
    /\ pc = "init"

\* one more call on the same object
NrTransformNxN ==
    /\ pc \in {"init", "transformed"}
    /\ \E c \in NrCalls :
         /\ Denoised(env, c) => NrCallsDone < MaxNrCalls
         /\ \E seed \in NrSeeds(c) :
              \E resi \in {BufferOf(ResidualBlock(3, seed, c.log2TrSize), Pow2(c.log2TrSize), c.stride)} :
                \E r \in {transformNxN(resi, m_resiDctCoeff, m_nr, env, c)} :
                   /\ call' = c
                   /\ residual' = resi
                   /\ m_resiDctCoeff' = r.resiDct
                   /\ m_fencDctCoeff' = FencDctAfter(resi, m_fencDctCoeff, env, c)
              /\ m_fencDctCoeff' = FencDctAfter(resi, m_fencDctCoeff, env, c)
                   /\ m_nr' = r.nr
                   /\ coeff' = r.coeff
                   /\ numSig' = r.numSig
                   /\ loc' = r.loc
    /\ pc' = "transformed"
    /\ UNCHANGED <<env, recon, srcPix, dst>>

NrNext == NrTransformNxN

NrSpec == NrInit /\ [][NrNext]_vars

(***************************************************************************)
(* The source pixels and m_fencDctCoeff: RDOQ calls on a Quant object      *)
(* whose m_fencDctCoeff holds what earlier calls or the allocation left,   *)
(* for source blocks that differ in their prediction.                      *)
(***************************************************************************)
\* what a call may find in m_fencDctCoeff: the allocation untouched, zeros,
\* the transform an earlier call left
StaleFencDct ==
    {Array([i \in Positions(3) |-> Uninit]),
     Array([i \in Positions(3) |-> 0]),
     Array([i \in Positions(3) |-> IF i = 0 THEN 4100 ELSE 61 * ((5 * i) % 13) - 366])}

\* the source block of a residual block over prediction k
FencOver(resiBlock, depth, k) ==
    Array([i \in DOMAIN resiBlock |->
        LET r    == resiBlock[i]
            pred == Clip3(Max2(0, -r), Min2(Pow2(depth) - 1, Pow2(depth) - 1 - r),
                          IF k = 0 THEN 16 + 9 * (i % 5) ELSE Pow2(depth - 1) + 23 * (i % 3))
        IN  pred + r])

FencBlocks(resi, c, depth) ==
    {FencOver(BlockOf(resi, Pow2(c.log2TrSize), c.stride), depth, k) : k \in {0, 1}}

\* RDOQ without psy-rdoq, with it on an I slice, with a stronger one on a P slice
FencEnvs == {EnvOf(3), EnvOf(4), EnvOf(7)}

FencCalls ==
    {c \in Calls : /\ c.scanType = SCAN_DIAG /\ c.ttype # TEXT_CHROMA_V
                   /\ c.stride = Pow2(c.log2TrSize) /\ ~c.bypass}

FencInit ==
    /\ env \in FencEnvs
    /\ m_nr = [residualSum |-> Array([cat \in 0 .. 7 |-> [i \in Positions(3) |-> 0]]),
               count |-> Array([cat \in 0 .. 7 |-> 0])]
    /\ call = [log2TrSize |-> 2, ttype |-> TEXT_LUMA, isIntra |-> FALSE, bypass |-> FALSE,
               useTransformSkip |-> FALSE, scanType |-> SCAN_DIAG, stride |-> 4, trIdx |-> 1]
    /\ residual = <<>>
    /\ m_resiDctCoeff = <<>>
    /\ m_fencDctCoeff \in StaleFencDct
    /\ coeff = <<>>
    /\ numSig = 0
    /\ loc = [path |-> "none"]
    /\ recon = [residual |-> <<>>, dc |-> FALSE]
    /\ srcPix = <<>>
    /\ dst = <<>>
    /\ pc = "init"

FencTransformNxN ==
    /\ pc = "init"
    /\ \E c \in FencCalls, base \in {3, -40}, seed \in {1, 2} :
         \E resi \in {BufferOf(ResidualBlock(base, seed, c.log2TrSize), Pow2(c.log2TrSize), c.stride)} :
           \E fencBlock \in FencBlocks(resi, c, env.depth) :
             \E r \in {transformNxNFenc(fencBlock, m_fencDctCoeff, resi, m_resiDctCoeff, m_nr, env, c)} :
                /\ call' = c
                /\ residual' = resi
                /\ m_resiDctCoeff' = r.resiDct
                /\ m_fencDctCoeff' = FencDctStored(fencBlock, m_fencDctCoeff, env, c)
                /\ m_nr' = r.nr
                /\ coeff' = r.coeff
                /\ numSig' = r.numSig
                /\ loc' = r.loc
    /\ pc' = "transformed"
    /\ UNCHANGED <<env, recon, srcPix, dst>>

FencNext == FencTransformNxN

FencSpec == FencInit /\ [][FencNext]_vars

(***************************************************************************)
(* Properties                                                              *)
(***************************************************************************)
\* the scan order of the last call
CallScan == CodeParams(call.scanType, call.log2TrSize).scan

CallTrSize == Pow2(call.log2TrSize)

\* the highest scan position that holds a non-zero level, -1 when there is none
HighestNZ(levels, scan) ==
    LET S == {p \in DOMAIN scan : levels[scan[p]] # 0}
    IN  IF S = {} THEN -1 ELSE CHOOSE p \in S : \A r \in S : r <= p

\* the scan positions of coefficient group cg that hold a non-zero level
CGNonZero(levels, scan, cg) ==
    {n \in 0 .. (SCAN_SET_SIZE - 1) : levels[scan[cg * SCAN_SET_SIZE + n]] # 0}

SetMin(S) == CHOOSE n \in S : \A m \in S : n <= m

SetMax(S) == CHOOSE n \in S : \A m \in S : m <= n

RECURSIVE SumAbs(_, _, _, _)
SumAbs(levels, scan, from, to) ==
    IF from > to THEN 0 ELSE Abs(levels[scan[from]]) + SumAbs(levels, scan, from + 1, to)

\* the sign of the first non-zero level of group cg is hidden in the parity of
\* the group's sum of absolute levels
ParityHidesSign(levels, scan, cg) ==
    (SumAbs(levels, scan, cg * SCAN_SET_SIZE, cg * SCAN_SET_SIZE + SCAN_SET_SIZE - 1) % 2)
        = (IF levels[scan[cg * SCAN_SET_SIZE + SetMin(CGNonZero(levels, scan, cg))]] > 0 THEN 0 ELSE 1)

\* the number of coefficient groups of the last call's block
CallCGs == Pow2(2 * (call.log2TrSize - 2))

\* C1: on the non-bypass path the value transformNxN returns is the number of
\* non-zero levels it wrote, whichever quantizer ran and whether or not
\* sign-bit hiding changed a level
NumSigCountsLevels ==
    pc # "init" /\ ~call.bypass => numSig = CountNonZero(coeff)

\* C1 witness: the RD sign-bit hiding changed the number of non-zero levels
NumSigCountsLevelsWitness ==
    /\ pc = "transformed" /\ loc.path = "rdoq" /\ loc.sbh
    /\ CountNonZero(loc.pre) # CountNonZero(coeff)
    /\ numSig = CountNonZero(coeff)

\* C2: every level transformNxN writes is in [-32768, 32767], and a level that
\* is at 32767 or -32768 when sign-bit hiding selects it moves toward zero
LevelsStayInRange ==
    pc # "init" =>
        \A i \in DOMAIN coeff :
            /\ coeff[i] >= COEF_MIN /\ coeff[i] <= COEF_MAX
            /\ (loc.pre[i] = COEF_MAX \/ loc.pre[i] = COEF_MIN) /\ coeff[i] # loc.pre[i]
                   => Abs(coeff[i]) = Abs(loc.pre[i]) - 1

\* C2 witness: sign-bit hiding selected a level at the clamp
LevelsStayInRangeWitness ==
    /\ pc = "transformed" /\ loc.sbh
    /\ \E i \in DOMAIN coeff :
           /\ loc.pre[i] = COEF_MAX \/ loc.pre[i] = COEF_MIN
           /\ coeff[i] # loc.pre[i]
           /\ Abs(coeff[i]) < Abs(loc.pre[i])

BypassRoundTrip ==
    pc = "inverted" /\ call.bypass =>
        \A k \in 0 .. (CallTrSize - 1), j \in 0 .. (CallTrSize - 1) :
            recon.residual[k * call.stride + j] = residual[k * call.stride + j]

\* C4 witness: a bypassed block that differs from its transpose went through
\* both functions, with a stride wider than the block
BypassRoundTripWitness ==
    /\ pc = "inverted" /\ call.bypass /\ call.stride # CallTrSize
    /\ \E k \in 0 .. (CallTrSize - 1), j \in 0 .. (CallTrSize - 1) :
           residual[k * call.stride + j] # residual[j * call.stride + k]

\* C5: with sign-bit hiding disabled every non-zero level has the sign of the
\* coefficient of m_resiDctCoeff at its position
SignsFollowCoefficients ==
    pc = "transformed" /\ ~call.bypass /\ ~env.bSignHideEnabled =>
        \A i \in DOMAIN coeff :
            /\ coeff[i] > 0 => m_resiDctCoeff[i] > 0
            /\ coeff[i] < 0 => m_resiDctCoeff[i] < 0

\* C5 witness: rdoQuant wrote a negative and a positive level, sign-bit hiding
\* disabled
SignsFollowCoefficientsWitness ==
    /\ pc = "transformed" /\ loc.path = "rdoq" /\ ~env.bSignHideEnabled
    /\ \E i \in DOMAIN coeff : coeff[i] < 0
    /\ \E i \in DOMAIN coeff : coeff[i] > 0

\* C6: after rdoQuant every level at a scan position at or beyond bestLastIdx is
\* zero
ZeroFromBestLastIdx ==
    pc # "init" /\ loc.path = "rdoq" /\ loc.searched =>
        \A p \in DOMAIN CallScan : p >= loc.bestLastIdx => coeff[CallScan[p]] = 0

\* C6 witness: the search put the last position below the last level the
\* coefficient loop had coded, and the sign-bit hiding then changed a level
ZeroFromBestLastIdxWitness ==
    /\ pc = "transformed" /\ loc.path = "rdoq" /\ loc.searched
    /\ loc.bestLastIdx > 0 /\ loc.bestLastIdx <= loc.lastScanPos
    /\ loc.sbh /\ loc.changed # {}

\* C7 as claimed: when rdoQuant returns a non-zero value, the highest scan
\* position with a non-zero level is bestLastIdx - 1
LastLevelAtBestLastIdx ==
    pc # "init" /\ loc.path = "rdoq" /\ numSig # 0 =>
        HighestNZ(coeff, CallScan) = loc.bestLastIdx - 1

\* C7 as the code has it: when rdoQuant returns a non-zero value, the highest
\* scan position with a non-zero level is bestLastIdx - 1 before the sign-bit
\* hiding, and after it unless the sign-bit hiding took the level there, which
\* was 1 or -1, to zero; then it is lower
LastLevelUpToBestLastIdx ==
    pc # "init" /\ loc.path = "rdoq" /\ numSig # 0 =>
        /\ HighestNZ(loc.pre, CallScan) = loc.bestLastIdx - 1
        /\ HighestNZ(coeff, CallScan) <= loc.bestLastIdx - 1
        /\ HighestNZ(coeff, CallScan) < loc.bestLastIdx - 1 =>
               /\ loc.sbh
               /\ CallScan[loc.bestLastIdx - 1] \in loc.changed
               /\ Abs(loc.pre[CallScan[loc.bestLastIdx - 1]]) = 1

\* C7 witness: the sign-bit hiding zeroed the level at bestLastIdx - 1
LastLevelUpToBestLastIdxWitness ==
    /\ pc = "transformed" /\ loc.path = "rdoq" /\ numSig # 0
    /\ HighestNZ(coeff, CallScan) < loc.bestLastIdx - 1

\* C8: with sign-bit hiding enabled, in every coefficient group of the levels
\* transformNxN wrote whose first and last non-zero scan positions are at
\* least SBH_THRESHOLD apart, the parity of the sum of the absolute levels is
\* the sign bit of the first non-zero level
SignHiddenInParity ==
    pc # "init" /\ ~call.bypass /\ env.bSignHideEnabled =>
        \A cg \in 0 .. (CallCGs - 1) :
            CGNonZero(coeff, CallScan, cg) # {}
            /\ SetMax(CGNonZero(coeff, CallScan, cg)) - SetMin(CGNonZero(coeff, CallScan, cg))
                   >= SBH_THRESHOLD
            => ParityHidesSign(coeff, CallScan, cg)

\* C8 witness: signBitHidingHDQ changed a level of a group, which hides the
\* sign of its first level
SignHiddenInParityWitness ==
    /\ pc = "transformed" /\ loc.path = "scalar" /\ loc.sbh
    /\ \E cg \in 0 .. (CallCGs - 1) :
           /\ \E n \in 0 .. (SCAN_SET_SIZE - 1) :
                  coeff[CallScan[cg * SCAN_SET_SIZE + n]] # loc.pre[CallScan[cg * SCAN_SET_SIZE + n]]
           /\ CGNonZero(coeff, CallScan, cg) # {}
           /\ SetMax(CGNonZero(coeff, CallScan, cg)) - SetMin(CGNonZero(coeff, CallScan, cg))
                  >= SBH_THRESHOLD
           /\ ParityHidesSign(coeff, CallScan, cg)

\* C8, second witness: the same for the sign-bit hiding of rdoQuant
SignHiddenInParityRdoWitness ==
    /\ pc = "transformed" /\ loc.path = "rdoq" /\ loc.sbh /\ loc.changed # {}
    /\ \E cg \in 0 .. (CallCGs - 1) :
           /\ CGNonZero(coeff, CallScan, cg) # {}
           /\ SetMax(CGNonZero(coeff, CallScan, cg)) - SetMin(CGNonZero(coeff, CallScan, cg))
                  >= SBH_THRESHOLD
           /\ \E n \in 0 .. (SCAN_SET_SIZE - 1) : CallScan[cg * SCAN_SET_SIZE + n] \in loc.changed

\* the case of C9: one non-zero level, at position 0, no transform skip, no DST
DcOnlyCase ==
    /\ pc = "inverted" /\ ~call.bypass /\ ~call.useTransformSkip
    /\ numSig = 1 /\ coeff[0] # 0 /\ CountNonZero(coeff) = 1
    /\ ~(call.log2TrSize = 2 /\ call.ttype = TEXT_LUMA /\ call.isIntra)

\* C9: for a block whose only non-zero level is at position 0, invtransformNxN
\* takes the DC path, and the residual it writes is the one dequantization and
\* the inverse DCT of the size write
DcPathIsInverseDct ==
    DcOnlyCase =>
        /\ recon.dc
        /\ BlockOf(recon.residual, CallTrSize, call.stride)
               = idct(Dequant(coeff, env, call), call.log2TrSize, FALSE, env.depth)

\* C9 witness: the DC path wrote a non-zero residual from an odd dequantized
\* coefficient
DcPathIsInverseDctWitness ==
    /\ DcOnlyCase /\ recon.dc
    /\ recon.residual[0] # 0
    /\ Dequant(coeff, env, call)[0] % 2 = 1

\* C10 as claimed: for one quantCoeff, qbits and add, a coefficient of smaller
\* or equal magnitude gets a level of smaller or equal magnitude
QuantMonotonic ==
    pc = "quantized" =>
        \A i \in 0 .. 1, j \in 0 .. 1 :
            Abs(m_resiDctCoeff[i]) <= Abs(m_resiDctCoeff[j]) => Abs(coeff[i]) <= Abs(coeff[j])

\* C10 as the quantizer has it: for one quantCoeff, qbits and add, a coefficient
\* of smaller or equal magnitude gets a level of smaller or equal magnitude,
\* except that a negative coefficient is clamped to -32768 where a positive
\* one is clamped to 32767
QuantMonotonicUpToClamp ==
    pc = "quantized" =>
        \A i \in 0 .. 1, j \in 0 .. 1 :
            Abs(m_resiDctCoeff[i]) <= Abs(m_resiDctCoeff[j]) =>
                \/ Abs(coeff[i]) <= Abs(coeff[j])
                \/ coeff[i] = COEF_MIN /\ coeff[j] = COEF_MAX

\* C10 witness: a negative and a positive coefficient, both clamped
QuantMonotonicUpToClampWitness ==
    /\ pc = "quantized"
    /\ Abs(m_resiDctCoeff[0]) <= Abs(m_resiDctCoeff[1])
    /\ coeff[0] = COEF_MIN /\ coeff[1] = COEF_MAX

\* C13: when rdoQuant returns 0, every level it leaves is zero
RdoZeroMeansNoLevel ==
    pc # "init" /\ loc.path = "rdoq" /\ numSig = 0 =>
        \A i \in DOMAIN coeff : coeff[i] = 0

\* C13 witness: nquant found non-zero levels, the uncoded block won the search
\* for the last position, and rdoQuant returned 0
RdoZeroMeansNoLevelWitness ==
    /\ pc = "transformed" /\ loc.path = "rdoq" /\ numSig = 0
    /\ loc.searched /\ loc.bestLastIdx = 0
    /\ \E i \in DOMAIN loc.nquant : loc.nquant[i] # 0
    /\ \A i \in DOMAIN coeff : coeff[i] = 0

\* C13, second witness: nquant found no level and rdoQuant returned at once
RdoZeroEarlyWitness ==
    /\ pc = "transformed" /\ loc.path = "rdoq" /\ numSig = 0 /\ ~loc.searched
    /\ \E i \in DOMAIN m_resiDctCoeff : m_resiDctCoeff[i] # 0

\* the raster positions of the coefficient groups of the last call, by scan position
CallScanCG == CodeParams(call.scanType, call.log2TrSize).scanCG

\* C18 as claimed: when rdoQuant returns, the bit of every coefficient group
\* but group 0 is set in sigCoeffGroupFlag64 exactly when the group holds a
\* non-zero level
SigFlagTracksLevels ==
    pc # "init" /\ loc.path = "rdoq" =>
        \A cg \in 0 .. (CallCGs - 1) :
            CallScanCG[cg] # 0 =>
                (CallScanCG[cg] \in loc.sigCoeffGroupFlag64 <=> CGNonZero(coeff, CallScan, cg) # {})

\* C18 as the code has it: the bit of a coefficient group other than group 0 is
\* set exactly when the group holds a non-zero level at the end of the loop over
\* the coefficient groups; the search for the last position and the sign-bit
\* hiding leave the bits alone, so when rdoQuant returns every group with a
\* non-zero level has its bit set, and a group whose bit is set has no non-zero
\* level only when lines 888-889 zeroed all the levels the loop had left in it
SigFlagTracksCodedLevels ==
    pc # "init" /\ loc.path = "rdoq" =>
        \A cg \in 0 .. (CallCGs - 1) :
            CallScanCG[cg] # 0 =>
                /\ CallScanCG[cg] \in loc.sigCoeffGroupFlag64
                       <=> CGNonZero(loc.coded, CallScan, cg) # {}
                /\ CGNonZero(coeff, CallScan, cg) # {} => CallScanCG[cg] \in loc.sigCoeffGroupFlag64
                /\ CallScanCG[cg] \in loc.sigCoeffGroupFlag64 /\ CGNonZero(coeff, CallScan, cg) = {}
                       => \A n \in CGNonZero(loc.coded, CallScan, cg) :
                              cg * SCAN_SET_SIZE + n >= loc.bestLastIdx

\* C18 witness: rdoQuant returned levels, the bit of a group other than group 0
\* is set, and the search for the last position left no level in that group
SigFlagTracksCodedLevelsWitness ==
    /\ pc = "transformed" /\ loc.path = "rdoq" /\ loc.searched /\ numSig # 0
    /\ \E cg \in 0 .. (CallCGs - 1) :
           /\ CallScanCG[cg] # 0
           /\ CallScanCG[cg] \in loc.sigCoeffGroupFlag64
           /\ CGNonZero(coeff, CallScan, cg) = {}

\* rdoQuant left the loop over the coefficient groups without a last position
RdoNoLastPos ==
    /\ pc = "transformed" /\ loc.path = "rdoq" /\ ~loc.searched
    /\ \E i \in DOMAIN loc.nquant : loc.nquant[i] # 0

\* the block position of the first non-zero level of group cg
FirstLevelPos(levels, scan, cg) == scan[cg * SCAN_SET_SIZE + SetMin(CGNonZero(levels, scan, cg))]

\* C19: the sign-bit hiding of either quantizer never takes the first non-zero
\* level of a coefficient group from magnitude 1 to zero, and never makes a zero
\* level before it non-zero with a sign other than that of the first non-zero
\* level
SignHidingVetoes ==
    pc # "init" /\ loc.sbh =>
        \A cg \in 0 .. (CallCGs - 1) :
            CGNonZero(loc.pre, CallScan, cg) # {} =>
                /\ Abs(loc.pre[FirstLevelPos(loc.pre, CallScan, cg)]) = 1
                       => coeff[FirstLevelPos(loc.pre, CallScan, cg)] # 0
                /\ \A n \in 0 .. (SetMin(CGNonZero(loc.pre, CallScan, cg)) - 1) :
                       coeff[CallScan[cg * SCAN_SET_SIZE + n]] # 0
                           => SignBit(coeff[CallScan[cg * SCAN_SET_SIZE + n]])
                                  = SignBit(loc.pre[FirstLevelPos(loc.pre, CallScan, cg)])

\* C19 witness: signBitHidingHDQ made a zero level before the first non-zero
\* level of a group non-zero, in a group whose only other candidates before the
\* first level have the other sign or whose first level has magnitude 1
SignHidingVetoesWitness ==
    /\ pc = "transformed" /\ loc.path = "scalar" /\ loc.sbh
    /\ \E cg \in 0 .. (CallCGs - 1) :
           /\ CGNonZero(loc.pre, CallScan, cg) # {}
           /\ \E n \in 0 .. (SetMin(CGNonZero(loc.pre, CallScan, cg)) - 1) :
                  coeff[CallScan[cg * SCAN_SET_SIZE + n]] # 0
           /\ \/ Abs(loc.pre[FirstLevelPos(loc.pre, CallScan, cg)]) = 1
              \/ \E n \in 0 .. (SetMin(CGNonZero(loc.pre, CallScan, cg)) - 1) :
                     /\ m_resiDctCoeff[CallScan[cg * SCAN_SET_SIZE + n]] # 0
                     /\ SignBit(m_resiDctCoeff[CallScan[cg * SCAN_SET_SIZE + n]])
                            # SignBit(loc.pre[FirstLevelPos(loc.pre, CallScan, cg)])

\* C19, second witness: the sign-bit hiding of rdoQuant changed a level of a
\* group whose first non-zero level has magnitude 1 and was left non-zero
SignHidingVetoesRdoWitness ==
    /\ pc = "transformed" /\ loc.path = "rdoq" /\ loc.sbh
    /\ \E cg \in 0 .. (CallCGs - 1) :
           /\ CGNonZero(loc.pre, CallScan, cg) # {}
           /\ Abs(loc.pre[FirstLevelPos(loc.pre, CallScan, cg)]) = 1
           /\ coeff[FirstLevelPos(loc.pre, CallScan, cg)] # 0
           /\ \E n \in 0 .. (SCAN_SET_SIZE - 1) : CallScan[cg * SCAN_SET_SIZE + n] \in loc.changed

\* the scan positions of group cg whose level signBitHidingHDQ changed
HdqChangedIn(scan, cg) ==
    {n \in 0 .. (SCAN_SET_SIZE - 1) :
        coeff[scan[cg * SCAN_SET_SIZE + n]] # loc.pre[scan[cg * SCAN_SET_SIZE + n]]}

HdqChanged(cg) == HdqChangedIn(CallScan, cg)

\* the group signBitHidingHDQ sees first: the highest one with a non-zero level
LastSigCGIn(scan, levels) ==
    SetMax({cg \in 0 .. (CallCGs - 1) : CGNonZero(levels, scan, cg) # {}})

LastSigCG(levels) == LastSigCGIn(CallScan, levels)

\* C20: signBitHidingHDQ changes at most one level of every coefficient group,
\* and that one by exactly 1 in magnitude; a group that is all zero, whose
\* first and last non-zero levels are less than SBH_THRESHOLD apart or whose
\* parity already matches the sign is left as it was; in the last significant
\* group no level above the group's last non-zero position is changed
HdqOneChangePerGroup ==
    pc # "init" /\ loc.path = "scalar" /\ loc.sbh =>
        \A scan \in {CallScan} :
          \A cg \in 0 .. (CallCGs - 1) :
            \A changed \in {HdqChangedIn(scan, cg)}, nz \in {CGNonZero(loc.pre, scan, cg)} :
              /\ Cardinality(changed) <= 1
              /\ \A n \in changed :
                     Abs(Abs(coeff[scan[cg * SCAN_SET_SIZE + n]])
                         - Abs(loc.pre[scan[cg * SCAN_SET_SIZE + n]])) = 1
              /\ nz = {} => changed = {}
              /\ nz # {} =>
                     /\ SetMax(nz) - SetMin(nz) < SBH_THRESHOLD => changed = {}
                     /\ ParityHidesSign(loc.pre, scan, cg) => changed = {}
                     /\ cg = LastSigCGIn(scan, loc.pre) =>
                            \A n \in changed : n <= SetMax(nz)

\* an 8x8 block in which signBitHidingHDQ changed a level of the last
\* significant group and a level of a lower group
HdqOneChangePerGroupWitness ==
    /\ pc # "init" /\ loc.path = "scalar" /\ loc.sbh
    /\ HdqChanged(LastSigCG(loc.pre)) # {}
    /\ \E cg \in 0 .. (CallCGs - 1) : cg # LastSigCG(loc.pre) /\ HdqChanged(cg) # {}

\* C11: Quant::init returns true exactly when both the coefficient buffer
\* m_resiDctCoeff (of which m_fencDctCoeff is the second half) and
\* m_fencShortBuf were allocated, and false when either allocation failed
InitTrueIffBothAllocated ==
    pc = "initialized" =>
        (loc.ret <=> (env.m_resiDctCoeff # "NULL" /\ env.m_fencShortBuf # "NULL"))

\* init called, the coefficient buffer allocated and the short buffer not
InitTrueIffBothAllocatedWitness ==
    /\ pc = "initialized"
    /\ env.m_resiDctCoeff = "coeffBuf"
    /\ env.m_fencDctCoeff = "coeffBuf+1024"
    /\ env.m_fencShortBuf = "NULL"
    /\ ~loc.ret

\* the sum qpy + chromaQPOffset of the last setQPforQuant call, clipped
CallClippedQp == Clip3(-QP_BD_OFFSET(env.depth), 57, call.qpy + call.chromaQPOffset)

\* the chroma QP the last setQPforQuant call stored, before the bit-depth offset
CallChromaQp == env.m_qpParam[call.ttype].qp - QP_BD_OFFSET(env.depth)

\* C12: the chroma QP is qpy + chromaQPOffset clipped to [-QP_BD_OFFSET, 57];
\* below 30 it is used as it is in every chroma format, from 30 on it goes
\* through g_chromaScale in 4:2:0 and is capped at 51 in 4:2:2 and 4:4:4, so
\* outside 4:2:0 the chroma QP before the bit-depth offset never exceeds 51
ChromaQpMapping ==
    pc = "qpset" =>
        /\ CallClippedQp < 30 => CallChromaQp = CallClippedQp
        /\ CallClippedQp >= 30 /\ call.chFmt = X265_CSP_I420
               => CallChromaQp = g_chromaScale[CallClippedQp + 1]
        /\ CallClippedQp >= 30 /\ call.chFmt # X265_CSP_I420
               => CallChromaQp = Min2(CallClippedQp, 51)
        /\ call.chFmt # X265_CSP_I420 => CallChromaQp <= 51
        /\ env.m_qpParam[call.ttype].per = env.m_qpParam[call.ttype].qp \div 6
        /\ env.m_qpParam[call.ttype].rem = env.m_qpParam[call.ttype].qp % 6

\* a 4:4:4 call whose clipped sum is above 51 and whose chroma QP is 51
ChromaQpMappingWitness ==
    /\ pc = "qpset"
    /\ call.chFmt = X265_CSP_I420 + 2
    /\ CallClippedQp = 57
    /\ CallChromaQp = 51

\* the top and the left samples 0 .. width of the reference array all equal v
ConstantNeighbours(v) ==
    \A i \in (1 .. (call.width + 1)) \cup ((2 * call.width + 1) .. (3 * call.width + 1)) :
        srcPix[i] = v

\* C14: planar prediction of a constant reference is constant: when top[0..N]
\* and left[0..N], topRight and bottomLeft included, all equal v, every sample
\* planar_pred_c_new writes is v, for every N in {4, 8, 16, 32}
PlanarOfConstantIsConstant ==
    pc = "predicted" /\ call.fn = "planar_pred_c_new" /\ ConstantNeighbours(srcPix[1]) =>
        \A i \in BlockDomain(call.width) : dst[i] = srcPix[1]

\* a 32x32 planar prediction from neighbours that are all 255 - 3 while the
\* rest of the reference array is not
PlanarOfConstantIsConstantWitness ==
    /\ pc = "predicted" /\ call.fn = "planar_pred_c_new"
    /\ call.width = 32
    /\ ConstantNeighbours(252)
    /\ srcPix[0] # 252
    /\ dst[32 * 32 - 1] = 252

\* C15: mode 26 with the edge filter off copies the top row down: sample
\* (x, y) is top[x] for every block side and every reference array
VerticalCopiesTop ==
    pc = "predicted" /\ call.fn = "intra_pred_ang_c_new" /\ call.dirMode = 26 /\ ~call.bFilter =>
        \A i \in BlockDomain(call.width) : dst[i] = srcPix[1 + (i % call.width)]

\* mode 26 without the filter on a reference whose top samples differ and
\* whose left samples would have changed the first column
VerticalCopiesTopWitness ==
    /\ pc = "predicted" /\ call.fn = "intra_pred_ang_c_new" /\ call.dirMode = 26 /\ ~call.bFilter
    /\ srcPix[1] # srcPix[2]
    /\ srcPix[2 * call.width + 1] - srcPix[0] >= 2
    /\ dst[call.width] = srcPix[1]

RECURSIVE SumSamples(_, _, _)
SumSamples(src, from, to) ==
    IF from > to THEN 0 ELSE src[from] + SumSamples(src, from + 1, to)

\* C16 as claimed: DC prediction with the edge filter off writes the rounded
\* average of the 2N top and the 2N left samples of the reference array
DcAveragesAllNeighbours ==
    pc = "predicted" /\ call.fn = "intra_pred_dc_c_new" /\ ~call.bFilter =>
        \A i \in BlockDomain(call.width) :
            dst[i] = (SumSamples(srcPix, 1, 4 * call.width) + 2 * call.width) \div (4 * call.width)

\* C16: DC prediction with the edge filter off writes the rounded average of
\* the N top and the N left samples next to the block,
\* (top[0] + .. + top[N-1] + left[0] + .. + left[N-1] + N) / 2N
DcAveragesNearNeighbours ==
    pc = "predicted" /\ call.fn = "intra_pred_dc_c_new" /\ ~call.bFilter =>
        \A i \in BlockDomain(call.width) :
            dst[i] = (SumSamples(srcPix, 1, call.width)
                      + SumSamples(srcPix, 2 * call.width + 1, 3 * call.width)
                      + call.width) \div (2 * call.width)

\* an unfiltered DC prediction whose value is rounded up and is not the
\* average over all 4N neighbours
DcAveragesNearNeighboursWitness ==
    /\ pc = "predicted" /\ call.fn = "intra_pred_dc_c_new" /\ ~call.bFilter
    /\ dst[0] # (SumSamples(srcPix, 1, 4 * call.width) + 2 * call.width) \div (4 * call.width)
    /\ dst[0] > (SumSamples(srcPix, 1, call.width)
                 + SumSamples(srcPix, 2 * call.width + 1, 3 * call.width)) \div (2 * call.width)

\* C17 as claimed: for some block size, mode in 2 .. 34, filter flag and
\* reference array among those tried, intra_pred_ang_c and
\* intra_pred_ang_c_new write different blocks
AngularImplementationsDiffer ==
    /\ pc \in {"reference", "predicted"}
    /\ \E width \in IntraWidths :
        \E depth \in IntraDepths(width), dirMode \in 2 .. 34, bFilter \in BOOLEAN :
          \E src \in IntraRefs(width, depth) :
            intra_pred_ang_c(width, RefLeft(width, src), RefAbove(width, src), dirMode, bFilter, depth)
                # intra_pred_ang_c_new(width, src, dirMode, bFilter, depth)

\* C17: for every block size, mode in 2 .. 34, filter flag and reference
\* array, intra_pred_ang_c given refLeft and refAbove with the shared top-left
\* and intra_pred_ang_c_new given the same samples as srcPix write the same
\* block
AngularImplementationsAgree ==
    /\ pc = "predicted" /\ call.fn = "intra_pred_ang_c_new" =>
           dst = intra_pred_ang_c(call.width, RefLeft(call.width, srcPix), RefAbove(call.width, srcPix),
                                  call.dirMode, call.bFilter, env.depth)
    /\ pc = "predicted" /\ call.fn = "intra_pred_ang_c" =>
           dst = intra_pred_ang_c_new(call.width, srcPix, call.dirMode, call.bFilter, env.depth)

\* a horizontal mode of negative angle on a reference that is not constant:
\* the left samples are the main reference, top samples are projected, and
\* the block is transposed
AngularImplementationsAgreeWitness ==
    /\ pc = "predicted" /\ call.fn = "intra_pred_ang_c"
    /\ call.dirMode = 14 /\ call.bFilter
    /\ loc.refMain[-1] # PAD
    /\ \E i \in BlockDomain(call.width) : dst[i] # dst[0]
    /\ dst = intra_pred_ang_c_new(call.width, srcPix, call.dirMode, call.bFilter, env.depth)

\* the scaling-list index with which the last transformNxN call selected
\* quantCoef: line 389 on the scalar path, line 487 in rdoQuant
CallQuantListType ==
    IF env.m_useRDOQ THEN RdoListType(call.isIntra, call.ttype) ELSE ScalarListType(call.ttype)

\* C29: forward and inverse quantization of a block use the same scaling-list
\* type: the index that selects quantCoef in transformNxN, on the scalar path
\* and in rdoQuant, is (isIntra ? 0 : 3) + ttype, the index that selects
\* dequantCoef in invtransformNxN, and lies in 0 .. 5
ListTypesAgree ==
    pc # "init" /\ ~call.bypass =>
        /\ CallQuantListType = (IF call.isIntra THEN 0 ELSE 3) + call.ttype
        /\ CallQuantListType \in 0 .. 5

\* the group right of the last call's group is in the grid and significant
RightSignificant ==
    /\ call.cgPosX + 1 < Pow2(call.log2TrSizeCG)
    /\ (call.cgPosY * Pow2(call.log2TrSizeCG) + call.cgPosX + 1) \in call.sigCoeffGroupFlag64

\* the group below the last call's group is in the grid and significant
BelowSignificant ==
    /\ call.cgPosY + 1 < Pow2(call.log2TrSizeCG)
    /\ ((call.cgPosY + 1) * Pow2(call.log2TrSizeCG) + call.cgPosX) \in call.sigCoeffGroupFlag64

\* C27: calcPatternSigCtx returns 1 for a significant right neighbour plus 2
\* for a significant lower neighbour, neighbours outside the grid counting as
\* not significant, and 0 on a grid of side 1; getSigCoeffGroupCtxInc returns
\* 1 exactly when the right or the lower neighbour is significant
SigCtxFromNeighbours ==
    /\ pc = "returned" /\ loc.path = "calcPatternSigCtx" =>
           loc.ret = (IF call.log2TrSizeCG = 0 THEN 0
                      ELSE (IF RightSignificant THEN 1 ELSE 0) + (IF BelowSignificant THEN 2 ELSE 0))
    /\ pc = "returned" /\ loc.path = "getSigCoeffGroupCtxInc" =>
           loc.ret = (IF RightSignificant \/ BelowSignificant THEN 1 ELSE 0)

\* the last group of the last-but-one row of an 8x8 grid: the bit after the
\* group's own is set but belongs to the next row, the lower neighbour is
\* significant, and calcPatternSigCtx returns 2
SigCtxFromNeighboursWitness ==
    /\ pc = "returned" /\ loc.path = "calcPatternSigCtx"
    /\ call.log2TrSizeCG = 3 /\ call.cgPosX = 7 /\ call.cgPosY = 6
    /\ 56 \in call.sigCoeffGroupFlag64
    /\ 63 \in call.sigCoeffGroupFlag64
    /\ loc.ret = 2

\* the last group of an 8x8 grid, where the bitmap is shifted by 64
SigCtxOversizedShift ==
    /\ pc = "returned" /\ loc.path = "getSigCoeffGroupCtxInc"
    /\ call.log2TrSizeCG = 3 /\ call.cgPosX = 7 /\ call.cgPosY = 7
    /\ call.sigCoeffGroupFlag64 = 0 .. 63
    /\ loc.ret = 0

\* the block of mode m in the packed buffer of the last all-angles call
PackedBlock(m) ==
    [i \in BlockDomain(call.width) |-> dst[(m - 2) * call.width * call.width + i]]

\* the reference array the last all-angles call uses for mode m
AllAngsRef(m) ==
    IF call.width \in g_intraFilterFlags(m) THEN call.filtPix ELSE srcPix

\* C28: the all-angles variant writes for each mode m in 2 .. 34 an NxN block
\* at offset (m - 2)*N*N, from filtPix when g_intraFilterFlags[m] has the bit
\* of the block size and from refPix otherwise; for m >= 18 the block is the
\* output of intra_pred_ang_c_new for mode m, for m < 18 it is the transpose
\* of that output, which is the prediction before the flip inside
\* intra_pred_ang_c_new: the vertical mode 36 - m on the swapped reference
AllAngsBlocks ==
    pc = "predicted" /\ call.fn = "all_angs_pred_c_new" =>
        /\ DOMAIN dst = 0 .. (33 * call.width * call.width - 1)
        /\ \A m \in 18 .. 34 :
               PackedBlock(m) = intra_pred_ang_c_new(call.width, AllAngsRef(m), m, call.bLuma, env.depth)
        /\ \A m \in 2 .. 17 :
               /\ PackedBlock(m)
                      = Transposed(intra_pred_ang_c_new(call.width, AllAngsRef(m), m, call.bLuma,
                                                        env.depth), call.width)
               /\ PackedBlock(m) = intra_pred_ang_c_new(call.width, neighbourBuf(call.width, AllAngsRef(m)),
                                                        36 - m, call.bLuma, env.depth)

\* a 16x16 luma call in which mode 10 reads refPix and modes 2 and 5 read
\* filtPix, and the block of mode 5 is not symmetric
AllAngsBlocksWitness ==
    /\ pc = "predicted" /\ call.fn = "all_angs_pred_c_new"
    /\ call.width = 16 /\ call.bLuma
    /\ AllAngsRef(10) = srcPix /\ AllAngsRef(2) = call.filtPix /\ srcPix # call.filtPix
    /\ AllAngsRef(5) = call.filtPix
    /\ PackedBlock(5) # Transposed(PackedBlock(5), 16)


\* the transform of the residual of an inter call, as line 361 leaves it
NrDct(resi, c) == dct(BlockOf(resi, Pow2(c.log2TrSize), c.stride), c.log2TrSize, FALSE, env.depth)

DenoiseStep ==
    pc' = "transformed" /\ Denoised(env, call') =>
        \A d \in {NrDct(residual', call')}, cat \in {NrCat(call')} :
            /\ m_nr'.residualSum[cat] =
                   [i \in Positions(3) |-> m_nr.residualSum[cat][i] + (IF i \in DOMAIN d THEN Abs(d[i]) ELSE 0)]
            /\ m_resiDctCoeff' =
                   [i \in DOMAIN d |->
                       LET rem == Max2(Abs(d[i]) - env.offsetDenoise[cat][i], 0)
                       IN  IF d[i] < 0 THEN -rem ELSE rem]
            /\ \A i \in DOMAIN d : /\ Abs(m_resiDctCoeff'[i]) <= Abs(d[i])
                                   /\ m_resiDctCoeff'[i] * d[i] >= 0

\* C21: a denoised call adds the magnitude of every transform coefficient to
\* the residual sum of its position and replaces the coefficient by
\* sign * max(magnitude - offset, 0): no magnitude grows and no sign flips
DenoiseAccumulatesAndShrinks == [][DenoiseStep]_vars

\* a second denoised call of a category has cleared one coefficient, has
\* shrunk a negative one to a smaller negative one, and has added to a sum
\* the first call left
DenoiseWitness ==
    /\ pc = "transformed" /\ Denoised(env, call)
    /\ m_nr.count[NrCat(call)] = 2
    /\ LET d == NrDct(residual, call)
       IN  /\ \E i \in DOMAIN d : d[i] # 0 /\ m_resiDctCoeff[i] = 0
           /\ \E i \in DOMAIN d : m_resiDctCoeff[i] < 0 /\ m_resiDctCoeff[i] > d[i]
           /\ \E i \in DOMAIN d : d[i] # 0 /\ m_nr.residualSum[NrCat(call)][i] > Abs(d[i])

NrStateStep ==
    pc' = "transformed" =>
        IF Denoised(env, call')
        THEN /\ m_nr'.count = [m_nr.count EXCEPT ![NrCat(call')] = @ + 1]
             /\ \A cat \in (0 .. 7) \ {NrCat(call')} :
                   m_nr'.residualSum[cat] = m_nr.residualSum[cat]
        ELSE m_nr' = m_nr

\* C22: every inter call without transform skip and without bypass, noise
\* reduction being enabled, adds one to the count of its category
\* (log2TrSize - 2) + 4 * chroma and touches the sums of no other category;
\* every other call leaves the sums and the counts of all categories alone
NrTouchedByDenoisedCallsOnly == [][NrStateStep]_vars

\* an intra call after a denoised luma 4x4 call and a denoised chroma 8x8 call
NrTouchedWitness ==
    /\ pc = "transformed" /\ env.bNoiseReduction /\ call.isIntra
    /\ m_nr.count[0] = 1 /\ m_nr.count[5] = 1
    /\ \E i \in Positions(3) : m_nr.residualSum[5][i] > 0

\* the scan positions at which nquant left a non-zero level
NquantScanPositions == {p \in DOMAIN CallScan : loc.nquant[CallScan[p]] # 0}

\* C25: when nquant reports a non-zero level, the loop over the coefficient
\* groups of rdoQuant ends with lastScanPos and cgLastScanPos both set, to the
\* last scan position of a non-zero level and to its group, so the return of
\* lines 808-812 is never taken
LastPosAlwaysFound ==
    pc = "transformed" /\ loc.path = "rdoq" =>
        \A scan \in {CallScan} :
          \A nz \in {{p \in DOMAIN scan : loc.nquant[scan[p]] # 0}} :
            nz # {} =>
                /\ loc.lastScanPos >= 0 /\ loc.cgLastScanPos >= 0
                /\ loc.lastScanPos \in nz /\ \A p \in nz : p <= loc.lastScanPos
                /\ loc.cgLastScanPos = loc.lastScanPos \div SCAN_SET_SIZE
                /\ loc.searched

\* nquant left levels beyond the first group and rdoQuant returned 0 all the
\* same, by dropping every level
LastPosFoundWitness ==
    /\ pc = "transformed" /\ loc.path = "rdoq"
    /\ loc.cgLastScanPos > 0 /\ loc.lastScanPos % SCAN_SET_SIZE # 0
    /\ numSig = 0

\* the groups in which nquant left a level the level search cannot drop
StrongCGsOf(scan) ==
    {cg \in 0 .. (CallCGs - 1) : \E n \in 0 .. (SCAN_SET_SIZE - 1) :
         Abs(loc.nquant[scan[cg * SCAN_SET_SIZE + n]]) >= 3}

StrongCGs == StrongCGsOf(CallScan)

\* C24: when the loop over the coefficient groups of rdoQuant ends, every
\* group it reset lies strictly between group 0 and the group of lastScanPos
\* in the scan of the groups, held a level before, has its bit of
\* sigCoeffGroupFlag64 clear and has 16 zero levels; group 0 and the group of
\* lastScanPos are never reset, so a level of 3 or more in them keeps the group
\* non-zero and the group of lastScanPos always holds a level
CGRollupSparesEnds ==
    pc = "transformed" /\ loc.path = "rdoq" /\ loc.searched =>
        \A scan \in {CallScan}, scanCG \in {CallScanCG} :
            /\ \A cg \in loc.zeroedCGs :
                  /\ 0 < cg /\ cg < loc.cgLastScanPos
                  /\ scanCG[cg] \notin loc.sigCoeffGroupFlag64
                  /\ CGNonZero(loc.coded, scan, cg) = {}
                  /\ CGNonZero(loc.nquant, scan, cg) # {}
            /\ \A cg \in StrongCGsOf(scan) :
                  CGNonZero(loc.coded, scan, cg) = {} => cg \in loc.zeroedCGs
            /\ CGNonZero(loc.coded, scan, loc.cgLastScanPos) # {}

\* a group that held a level of 3 or more was reset, group 0 and the group of
\* lastScanPos keep levels
CGRollupWitness ==
    /\ pc = "transformed" /\ loc.path = "rdoq" /\ loc.searched
    /\ loc.zeroedCGs \cap StrongCGs # {}
    /\ CGNonZero(loc.coded, CallScan, 0) # {}

\* the level the search of lines 633-681 stored at scan position p (-1 where
\* it did not run), and the magnitude nquant left there
ChosenAt(scan, p) == loc.chosen[scan[p]]

MaxAbsLevelAt(scan, p) == Abs(loc.nquant[scan[p]])

\* C23 as claimed: the level chosen at every coded position is maxAbsLevel or
\* maxAbsLevel - 1, is 0 only where maxAbsLevel < 3 away from lastScanPos, and
\* is at least 1 at lastScanPos
LevelSearchKeepsOrDecrements ==
    pc = "transformed" /\ loc.path = "rdoq" /\ loc.searched =>
        \A scan \in {CallScan} :
          \A p \in 0 .. loc.lastScanPos :
            \A l \in {ChosenAt(scan, p)}, m \in {MaxAbsLevelAt(scan, p)} :
              /\ l \in {m, m - 1}
              /\ l = 0 => m < 3 /\ p # loc.lastScanPos
              /\ p = loc.lastScanPos => l >= 1

\* C23 amended: the level chosen at every coded position is maxAbsLevel,
\* maxAbsLevel - 1 or, where maxAbsLevel is 2 away from lastScanPos, 0; it is
\* never above maxAbsLevel, is 0 only where maxAbsLevel < 3 away from
\* lastScanPos, and is at least 1 at lastScanPos; past lastScanPos the search
\* does not run
LevelSearchNeverRaises ==
    pc = "transformed" /\ loc.path = "rdoq" /\ loc.searched =>
        \A scan \in {CallScan} :
          \A p \in DOMAIN scan :
            \A l \in {ChosenAt(scan, p)}, m \in {MaxAbsLevelAt(scan, p)} :
              IF p <= loc.lastScanPos
              THEN /\ l \in {m, m - 1} \cup (IF m = 2 /\ p # loc.lastScanPos THEN {0} ELSE {})
                   /\ l >= 0 /\ l <= m
                   /\ l = 0 => m < 3 /\ p # loc.lastScanPos
                   /\ p = loc.lastScanPos => l >= 1
              ELSE l = -1 /\ m = 0

\* the search dropped a level of 2 to 0, took one from a level of 3 or more,
\* and kept another
LevelSearchWitness ==
    /\ pc = "transformed" /\ loc.path = "rdoq" /\ loc.searched
    /\ \E scan \in {CallScan} :
         /\ \E p \in 0 .. loc.lastScanPos : MaxAbsLevelAt(scan, p) = 2 /\ ChosenAt(scan, p) = 0
         /\ \E p \in 0 .. loc.lastScanPos :
               MaxAbsLevelAt(scan, p) >= 3 /\ ChosenAt(scan, p) = MaxAbsLevelAt(scan, p) - 1
         /\ \E p \in 0 .. loc.lastScanPos :
               MaxAbsLevelAt(scan, p) >= 1 /\ ChosenAt(scan, p) = MaxAbsLevelAt(scan, p)

\* the ranges of the CABAC estimation state
CabacInRange(st) ==
    /\ st.c1 \in 0 .. 3 /\ st.c2 \in 0 .. 2 /\ st.goRiceParam \in 0 .. 4 /\ st.ctxSet \in 0 .. 3
    /\ st.c1Idx \in 0 .. SCAN_SET_SIZE /\ st.c2Idx \in 0 .. st.c1Idx

\* the X265_CHECKs of getICRate (lines 67-81) on its arguments
ICRateChecks(absLevel, diffLevel, absGoRice, c1c2Idx) ==
    /\ c1c2Idx <= 3 /\ absGoRice <= 4
    /\ absLevel = 0 => diffLevel < 0
    /\ absLevel # 0 /\ diffLevel < 0 => absLevel <= 2

\* the X265_CHECKs of getICRateCost (lines 123-127) on its arguments
ICRateCostChecks(absLevel, diffLevel) ==
    /\ absLevel # 0
    /\ diffLevel < 0 => absLevel \in {1, 2}

\* the checks of lines 620-625 and of the calls of lines 655 and 686-688 for
\* the coefficient of observation o
CoefficientChecks(o, scan) ==
    LET c1c2Idx   == C1C2Idx(o.pre)
        baseLevel == BaseLevel(c1c2Idx)
        goRice    == o.pre.goRiceParam
        maxAbs    == MaxAbsLevelAt(scan, o.scanPos)
    IN  /\ c1c2Idx \in 0 .. 3
        /\ baseLevel = (IF o.pre.c1Idx < C1FLAG_NUMBER
                        THEN 2 + (IF o.pre.c2Idx = 0 THEN 1 ELSE 0) ELSE 1)
        /\ \A lvl \in Max2(maxAbs - 1, 1) .. maxAbs : ICRateCostChecks(lvl, lvl - baseLevel)
        /\ o.level # 0 =>
              \A l \in {o.level - 1, o.level, o.level + 1} :
                  ICRateChecks(l, l - baseLevel, goRice, c1c2Idx)

\* C26: at every coefficient rdoQuant codes, the CABAC estimation state is in
\* range before and after it (c1 in 0..3, c2 in 0..2, goRiceParam in 0..4,
\* ctxSet in 0..3), c1c2Idx is in 0..3, baseLevel is 2 + (c2Idx = 0) while
\* c1Idx < 8 and 1 after, the checks of getICRate and getICRateCost hold on
\* the arguments of every call, the state a coefficient starts from is the one
\* the coefficient before it left, and c1, c2, goRiceParam, c1Idx and c2Idx are
\* back at their initial values after the first coefficient of every group
\* but group 0
CabacStateInRange ==
    pc = "transformed" /\ loc.path = "rdoq" /\ loc.searched =>
        /\ {o.scanPos : o \in loc.cabac} = 0 .. loc.lastScanPos
        /\ Cardinality(loc.cabac) = loc.lastScanPos + 1
        /\ \A scan \in {CallScan}, o \in loc.cabac :
              /\ CabacInRange(o.pre) /\ CabacInRange(o.post)
              /\ CoefficientChecks(o, scan)
              /\ o.level = ChosenAt(scan, o.scanPos)
              /\ IF o.scanPos = loc.lastScanPos
                 THEN o.pre = [ctxSet |-> o.pre.ctxSet, c1 |-> 1, c2 |-> 0, goRiceParam |-> 0,
                               c1Idx |-> 0, c2Idx |-> 0] /\ o.pre.ctxSet \in {0, 2}
                 ELSE \E n \in loc.cabac : n.scanPos = o.scanPos + 1 /\ n.post = o.pre
              /\ o.scanPos % SCAN_SET_SIZE = 0 /\ o.scanPos # 0 =>
                    o.post = [ctxSet |-> o.post.ctxSet, c1 |-> 1, c2 |-> 0, goRiceParam |-> 0,
                              c1Idx |-> 0, c2Idx |-> 0]

\* a call in which c1 reached 3 and c2 reached 2, goRiceParam rose, eight
\* levels of a group were coded, ctxSet 3 was used, and a group boundary reset
\* a state that had moved
CabacStateWitness ==
    /\ pc = "transformed" /\ loc.path = "rdoq" /\ loc.searched
    /\ \E o \in loc.cabac : o.pre.c1 = 3
    /\ \E o \in loc.cabac : o.pre.c2 = 2
    /\ \E o \in loc.cabac : o.pre.goRiceParam >= 1
    /\ \E o \in loc.cabac : o.pre.c1Idx >= C1FLAG_NUMBER
    /\ \E o \in loc.cabac : o.pre.ctxSet = 3
    /\ \E o \in loc.cabac : /\ o.scanPos % SCAN_SET_SIZE = 0 /\ o.scanPos # 0
                             /\ o.pre.c2Idx > 0 /\ o.post.c2Idx = 0

\* line 335 read from the state: psy-rdoq is not in effect
PsyOff == env.m_psyRdoqScale = 0 \/ call.ttype # TEXT_LUMA \/ call.useTransformSkip

\* C30: no pass of rdoQuant reads an element of costSig, costCoeff,
\* costCoeffGroupSig, deltaU, rateIncUp, rateIncDown or sigRateDelta that the
\* call has not written before; and where psy-rdoq is not in effect (scale 0,
\* chroma or transform skip) the levels and the count returned are the same
\* for every source block and for every prior content of m_fencDctCoeff
ScratchFreshAndFencIgnored ==
    pc = "transformed" /\ loc.path = "rdoq" =>
        /\ loc.stale = {}
        /\ PsyOff =>
              \A fencBlock \in FencBlocks(residual, call, env.depth), before \in StaleFencDct :
                \A r \in {transformNxNFenc(fencBlock, before, residual, <<>>, m_nr, env, call)} :
                    r.coeff = coeff /\ r.numSig = numSig

\* a chroma call under a psy-rdoq scale, m_fencDctCoeff still as allocated:
\* groups were rolled up, the last position was moved and the sign hiding
\* changed a level
ScratchFreshWitness ==
    /\ pc = "transformed" /\ loc.path = "rdoq" /\ loc.searched
    /\ env.m_psyRdoqScale # 0 /\ call.ttype # TEXT_LUMA
    /\ m_fencDctCoeff[0] = Uninit
    /\ loc.cgLastScanPos > 0
    /\ loc.sbh /\ loc.changed # {}

\* with psy-rdoq in effect the levels follow the source block
PsyFollowsFenc ==
    /\ pc = "transformed" /\ loc.path = "rdoq" /\ ~PsyOff
    /\ \E fencBlock \in FencBlocks(residual, call, env.depth) :
         transformNxNFenc(fencBlock, m_fencDctCoeff, residual, <<>>, m_nr, env, call).coeff # coeff


=========================================================================
